---- MODULE Spec2Model ----
(***************************************************************************)
(* A model of the picking core of the Minecraft skin 3D preview:           *)
(*   mathutil.py     4x4 column-major matrices                             *)
(*   model.py        box parts, box-unwrap UVs, poses, rigid rotation      *)
(*   interaction.py  unproject, ray/triangle, ray/quad, RayCaster.pick     *)
(*   renderer.py     the orbit camera of the Renderer                      *)
(*   minecraft-skin-3d.py  the mouse handlers of the preview window        *)
(*                                                                         *)
(* Numbers.  The program computes in IEEE doubles.  The model computes in  *)
(* the exact field Q(sqrt 3): a number is a triple <<p, q, d>> standing    *)
(* for (p + q*sqrt(3)) / d with d > 0 and gcd(p, q, d) = 1, so that equal  *)
(* numbers are equal triples.  The field holds every coordinate of the     *)
(* models (tenths and halves), the sines and cosines of all multiples of   *)
(* 30 degrees, and is closed under + - * /.  Rounding error of the doubles *)
(* is not modelled.                                                        *)
(*                                                                         *)
(* Locals.  A local of the source that is read more than once is a         *)
(* parameter of an operator defined in the LET of its function: the        *)
(* operator WithX(.., x) is the rest of the function from the point where  *)
(* x has been assigned.  The operators of one LET therefore read from the  *)
(* last one up.                                                            *)
(***************************************************************************)
EXTENDS Integers, Sequences, FiniteSets, TLC

VARIABLES variant, base_parts, overlay_parts, pose_pc, pose_arg, pose_i,
          pick, serialized, call, window, held, renderer

vars == <<variant, base_parts, overlay_parts, pose_pc, pose_arg, pose_i,
          pick, serialized, call, window, held, renderer>>

----------------------------------------------------------------------------
(* Arithmetic in Q(sqrt 3).                                                *)

Abs(n) == IF n < 0 THEN -n ELSE n

RECURSIVE GCD(_, _)
GCD(a, b) == IF b = 0 THEN a ELSE GCD(b, a % b)

\* The canonical triple of (p + q*sqrt 3)/d, d > 0.
Reduced(p, q, d, g) == <<p \div g, q \div g, d \div g>>
Norm(p, q, d) == Reduced(p, q, d, GCD(GCD(Abs(p), Abs(q)), d))

Num(n) == <<n, 0, 1>>
Rat(n, d) == Norm(n, 0, d)
Zero == <<0, 0, 1>>
One == <<1, 0, 1>>

Neg(x) == <<-x[1], -x[2], x[3]>>

Add(x, y) ==
    Norm(IF x[3] = y[3] THEN x[1] + y[1] ELSE x[1] * y[3] + y[1] * x[3],
         IF x[3] = y[3] THEN x[2] + y[2] ELSE x[2] * y[3] + y[2] * x[3],
         IF x[3] = y[3] THEN x[3] ELSE x[3] * y[3])

Sub(x, y) == Add(x, Neg(y))

Mul(x, y) ==
    Norm(x[1] * y[1] + 3 * x[2] * y[2], x[1] * y[2] + x[2] * y[1], x[3] * y[3])

\* 1/x for x # 0: (p - q*sqrt 3) * d / (p*p - 3*q*q).
InvOver(x, n) ==
    IF n > 0 THEN Norm(x[1] * x[3], -(x[2] * x[3]), n)
    ELSE Norm(-(x[1] * x[3]), x[2] * x[3], -n)
Inv(x) == InvOver(x, x[1] * x[1] - 3 * x[2] * x[2])

Div(x, y) == Mul(x, Inv(y))

SgnInt(n) == IF n > 0 THEN 1 ELSE IF n < 0 THEN -1 ELSE 0

\* The order of a/b (a >= 0, b > 0) against the irrational with continued
\* fraction [c; 3 - c, c, 3 - c, ...]: -1 below it, 1 above it.  sqrt 3 is
\* [1; 1, 2, 1, 2, ...], and its tails are [1; 2, 1, ...] and [2; 1, 2, ...].
RECURSIVE CmpTail(_, _, _)
CmpTail(a, b, c) ==
    IF a \div b < c THEN -1
    ELSE IF a \div b > c THEN 1
    ELSE IF a % b = 0 THEN -1
    ELSE -CmpTail(b, a % b, 3 - c)

\* The order of a/b against sqrt 3.
CmpSqrt3(a, b) ==
    IF a \div b < 1 THEN -1
    ELSE IF a \div b > 1 THEN 1
    ELSE IF a % b = 0 THEN -1
    ELSE -CmpTail(b, a % b, 1)

\* The sign of (p + q*sqrt 3)/d.
Sgn(x) ==
    IF x[2] = 0 THEN SgnInt(x[1])
    ELSE IF x[1] = 0 THEN SgnInt(x[2])
    ELSE IF (x[1] > 0) = (x[2] > 0) THEN SgnInt(x[1])
    ELSE IF x[1] > 0 THEN CmpSqrt3(x[1], -x[2])
    ELSE -CmpSqrt3(-x[1], x[2])

Lt(x, y) == Sgn(Sub(x, y)) < 0
Le(x, y) == Sgn(Sub(x, y)) <= 0
Gt(x, y) == Lt(y, x)
AbsN(x) == IF Sgn(x) < 0 THEN Neg(x) ELSE x

\* x < 10^(-k), decided without forming 10^k: x < 10^-k iff 10x < 10^-(k-1).
RECURSIVE BelowPow10(_, _)
BelowPow10(x, k) ==
    IF Sgn(x) <= 0 THEN TRUE
    ELSE IF ~Lt(x, One) THEN FALSE
    ELSE IF k = 0 THEN TRUE
    ELSE BelowPow10(Mul(x, Num(10)), k - 1)

\* The integer square root of n >= 0 by bisection: the r with r*r <= n < (r+1)^2.
RECURSIVE ISqrtIn(_, _, _)
ISqrtIn(n, lo, hi) ==
    IF lo >= hi THEN lo
    ELSE IF (lo + hi + 1) \div 2 <= n \div ((lo + hi + 1) \div 2)
    THEN ISqrtIn(n, (lo + hi + 1) \div 2, hi)
    ELSE ISqrtIn(n, lo, (lo + hi + 1) \div 2 - 1)

ISqrt(n) == IF n = 0 THEN 0 ELSE ISqrtIn(n, 1, n)

IsSquare(n) == n >= 0 /\ ISqrt(n) * ISqrt(n) = n

\* math.sqrt.  It is exact in the model on the squares of rationals and yields
\* Inexact elsewhere (the root is then outside the model's numbers); the
\* operations of the model take only inputs whose roots are exact.
Inexact == <<>>
HasExactSqrt(x) == x[2] = 0 /\ IsSquare(x[1]) /\ IsSquare(x[3])
Sqrt(x) == IF HasExactSqrt(x) THEN <<ISqrt(x[1]), 0, ISqrt(x[3])>> ELSE Inexact

\* math.cos(math.radians(a)) and math.sin(math.radians(a)) for a a multiple
\* of 30 degrees, as the exact real values.
CosTable ==
    << <<1, 0, 1>>, <<0, 1, 2>>, <<1, 0, 2>>, <<0, 0, 1>>, <<-1, 0, 2>>,
       <<0, -1, 2>>, <<-1, 0, 1>>, <<0, -1, 2>>, <<-1, 0, 2>>, <<0, 0, 1>>,
       <<1, 0, 2>>, <<0, 1, 2>> >>

CosDeg(a) == CosTable[((a % 360) \div 30) + 1]
SinDeg(a) == CosDeg(a - 90)

\* Python's int(x): truncation towards zero.
RECURSIVE FloorFrom(_, _)
FloorFrom(x, n) == IF Lt(x, Num(n + 1)) THEN n ELSE FloorFrom(x, n + 1)

FloorNonNeg(x) == IF x[2] = 0 THEN x[1] \div x[3] ELSE FloorFrom(x, 0)

TruncInt(x) == IF Sgn(x) >= 0 THEN FloorNonNeg(x) ELSE -FloorNonNeg(Neg(x))

Min2(a, b) == IF a < b THEN a ELSE b
Max2(a, b) == IF a > b THEN a ELSE b

\* Python's None, where a sequence is expected: the empty sequence.
None == <<>>

\* Notation for the literals of the source: integers, and tenths.
I2(a, b) == <<Num(a), Num(b)>>
I3(a, b, c) == <<Num(a), Num(b), Num(c)>>
T3(a, b, c) == <<Rat(a, 10), Rat(b, 10), Rat(c, 10)>>

----------------------------------------------------------------------------
(* model.py                                                                *)

TEX_W == 64
TEX_H == 64

\* A norm that returns the normalised extent in place of the far corner.
UvNormExtent(px_u, px_v, px_w, px_h, tex_w, tex_h) ==
    << Div(px_u, tex_w), Div(px_v, tex_h),
       Div(px_w, tex_w), Div(px_h, tex_h) >>

\* A norm that returns the far corner of the rectangle before the near one.
UvNormFarFirst(px_u, px_v, px_w, px_h, tex_w, tex_h) ==
    << Div(Add(px_u, px_w), tex_w), Div(Add(px_v, px_h), tex_h),
       Div(px_u, tex_w), Div(px_v, tex_h) >>

\* norm(px_u, px_v, px_w, px_h) inside _box_uvs.
UvNorm(px_u, px_v, px_w, px_h, tex_w, tex_h) ==
    << Div(px_u, tex_w), Div(px_v, tex_h),
       Div(Add(px_u, px_w), tex_w), Div(Add(px_v, px_h), tex_h) >>

\* A _box_uvs that puts the bottom face where the top face is.
BoxUvsBottomOnTop(u0, v0, w, h, d, tex_w, tex_h) ==
    [ right  |-> UvNorm(u0, Add(v0, d), d, h, tex_w, tex_h),
      front  |-> UvNorm(Add(u0, d), Add(v0, d), w, h, tex_w, tex_h),
      left   |-> UvNorm(Add(Add(u0, d), w), Add(v0, d), d, h, tex_w, tex_h),
      back   |-> UvNorm(Add(Add(Add(u0, d), w), d), Add(v0, d), w, h,
                        tex_w, tex_h),
      top    |-> UvNorm(Add(u0, d), v0, w, d, tex_w, tex_h),
      bottom |-> UvNorm(Add(u0, d), v0, w, d, tex_w, tex_h) ]

\* The dict of _box_uvs, a record over the six face names.
BoxUvs(u0, v0, w, h, d, tex_w, tex_h) ==
    [ right  |-> UvNorm(u0, Add(v0, d), d, h, tex_w, tex_h),
      front  |-> UvNorm(Add(u0, d), Add(v0, d), w, h, tex_w, tex_h),
      left   |-> UvNorm(Add(Add(u0, d), w), Add(v0, d), d, h, tex_w, tex_h),
      back   |-> UvNorm(Add(Add(Add(u0, d), w), d), Add(v0, d), w, h,
                        tex_w, tex_h),
      top    |-> UvNorm(Add(u0, d), v0, w, d, tex_w, tex_h),
      bottom |-> UvNorm(Add(Add(u0, d), w), v0, w, d, tex_w, tex_h) ]

Two == Num(2)

\* A BoxPart.__init__ that grows the box by inflate once, not on both sides.
BoxPartGrownOnce(name, origin, size, uv_origin, inflate, pivot) ==
    [ name      |-> name,
      origin    |-> <<Sub(origin[1], inflate), Sub(origin[2], inflate),
                      Sub(origin[3], inflate)>>,
      size      |-> <<Add(size[1], inflate), Add(size[2], inflate),
                      Add(size[3], inflate)>>,
      uv_origin |-> uv_origin,
      inflate   |-> inflate,
      uvs       |-> BoxUvs(uv_origin[1], uv_origin[2], size[1], size[2],
                           size[3], Num(TEX_W), Num(TEX_H)),
      pivot     |-> IF pivot = None
                    THEN <<Add(origin[1], Div(size[1], Two)),
                           Add(origin[2], Div(size[2], Two)),
                           Add(origin[3], Div(size[3], Two))>>
                    ELSE pivot,
      rotation  |-> <<0, 0, 0>> ]

\* BoxPart.__init__ with rotation left at its default.
BoxPart(name, origin, size, uv_origin, inflate, pivot) ==
    LET ox == origin[1]
        oy == origin[2]
        oz == origin[3]
        w == size[1]
        h == size[2]
        d == size[3]
        inf == inflate
    IN  [ name      |-> name,
          origin    |-> <<Sub(ox, inf), Sub(oy, inf), Sub(oz, inf)>>,
          size      |-> <<Add(w, Mul(Two, inf)), Add(h, Mul(Two, inf)),
                          Add(d, Mul(Two, inf))>>,
          uv_origin |-> uv_origin,
          inflate   |-> inflate,
          uvs       |-> BoxUvs(uv_origin[1], uv_origin[2], w, h, d,
                               Num(TEX_W), Num(TEX_H)),
          pivot     |-> IF pivot = None
                        THEN <<Add(ox, Div(w, Two)), Add(oy, Div(h, Two)),
                               Add(oz, Div(d, Two))>>
                        ELSE pivot,
          rotation  |-> <<0, 0, 0>> ]

\* A face tuple whose UVs are listed in strip order: the last two exchanged.
QuadUvsInStripOrder(face, verts, uvs) ==
    [face |-> face, verts |-> verts,
     uvs |-> <<uvs[1], uvs[2], uvs[4], uvs[3]>>]

\* The tuple (face, verts, uvs) of get_face_quads and get_transformed_quads.
Quad(face, verts, uvs) == [face |-> face, verts |-> verts, uvs |-> uvs]

\* BoxPart.get_face_quads.
GetFaceQuads(part) ==
    LET \* the UV order of the four side faces, and of top and bottom
        Side(uv) == << <<uv[3], uv[4]>>, <<uv[1], uv[4]>>,
                       <<uv[1], uv[2]>>, <<uv[3], uv[2]>> >>
        Cap(uv)  == << <<uv[1], uv[2]>>, <<uv[3], uv[2]>>,
                       <<uv[3], uv[4]>>, <<uv[1], uv[4]>> >>
        WithCorners(x0, y0, z0, x1, y1, z1) ==
            << Quad("front",
                    << <<x0, y0, z0>>, <<x1, y0, z0>>, <<x1, y1, z0>>, <<x0, y1, z0>> >>,
                    Side(part.uvs.front)),
               Quad("back",
                    << <<x1, y0, z1>>, <<x0, y0, z1>>, <<x0, y1, z1>>, <<x1, y1, z1>> >>,
                    Side(part.uvs.back)),
               Quad("right",
                    << <<x0, y0, z1>>, <<x0, y0, z0>>, <<x0, y1, z0>>, <<x0, y1, z1>> >>,
                    Side(part.uvs.right)),
               Quad("left",
                    << <<x1, y0, z0>>, <<x1, y0, z1>>, <<x1, y1, z1>>, <<x1, y1, z0>> >>,
                    Side(part.uvs.left)),
               Quad("top",
                    << <<x0, y1, z0>>, <<x1, y1, z0>>, <<x1, y1, z1>>, <<x0, y1, z1>> >>,
                    Cap(part.uvs.top)),
               Quad("bottom",
                    << <<x0, y0, z1>>, <<x1, y0, z1>>, <<x1, y0, z0>>, <<x0, y0, z0>> >>,
                    Cap(part.uvs.bottom)) >>
    IN  WithCorners(part.origin[1], part.origin[2], part.origin[3],
                    Add(part.origin[1], part.size[1]),
                    Add(part.origin[2], part.size[2]),
                    Add(part.origin[3], part.size[3]))

\* A _rotate_point that applies the Z rotation first, then Y, then X.
RotatePointZYX(px, py, pz, pivot, rotation_deg) ==
    LET WithX(x, y, z) == <<Add(x, pivot[1]), Add(y, pivot[2]), Add(z, pivot[3])>>
        \* rotate around X
        WithY(x, y, z) ==
            WithX(x,
                  Sub(Mul(CosDeg(rotation_deg[1]), y), Mul(SinDeg(rotation_deg[1]), z)),
                  Add(Mul(SinDeg(rotation_deg[1]), y), Mul(CosDeg(rotation_deg[1]), z)))
        \* rotate around Y
        WithZ(x, y, z) ==
            WithY(Add(Mul(CosDeg(rotation_deg[2]), x), Mul(SinDeg(rotation_deg[2]), z)),
                  y,
                  Add(Mul(Neg(SinDeg(rotation_deg[2])), x), Mul(CosDeg(rotation_deg[2]), z)))
        \* rotate around Z
        WithOffset(x, y, z) ==
            WithZ(Sub(Mul(CosDeg(rotation_deg[3]), x), Mul(SinDeg(rotation_deg[3]), y)),
                  Add(Mul(SinDeg(rotation_deg[3]), x), Mul(CosDeg(rotation_deg[3]), y)),
                  z)
    IN  WithOffset(Sub(px, pivot[1]), Sub(py, pivot[2]), Sub(pz, pivot[3]))

\* _rotate_point: about X, then Y, then Z, around the pivot.
RotatePoint(px, py, pz, pivot, rotation_deg) ==
    LET WithZ(x, y, z) == <<Add(x, pivot[1]), Add(y, pivot[2]), Add(z, pivot[3])>>
        \* rotate around Z
        WithY(x, y, z) ==
            WithZ(Sub(Mul(CosDeg(rotation_deg[3]), x), Mul(SinDeg(rotation_deg[3]), y)),
                  Add(Mul(SinDeg(rotation_deg[3]), x), Mul(CosDeg(rotation_deg[3]), y)),
                  z)
        \* rotate around Y
        WithX(x, y, z) ==
            WithY(Add(Mul(CosDeg(rotation_deg[2]), x), Mul(SinDeg(rotation_deg[2]), z)),
                  y,
                  Add(Mul(Neg(SinDeg(rotation_deg[2])), x), Mul(CosDeg(rotation_deg[2]), z)))
        \* rotate around X
        WithOffset(x, y, z) ==
            WithX(x,
                  Sub(Mul(CosDeg(rotation_deg[1]), y), Mul(SinDeg(rotation_deg[1]), z)),
                  Add(Mul(SinDeg(rotation_deg[1]), y), Mul(CosDeg(rotation_deg[1]), z)))
    IN  WithOffset(Sub(px, pivot[1]), Sub(py, pivot[2]), Sub(pz, pivot[3]))

\* A get_transformed_quads that turns the UVs of a rotated quad by one corner.
GetTransformedQuadsUvTurned(part) ==
    LET NewVert(v) == RotatePoint(v[1], v[2], v[3], part.pivot, part.rotation)
        Transformed(q) ==
            Quad(q.face, [n \in 1..Len(q.verts) |-> NewVert(q.verts[n])],
                 <<q.uvs[2], q.uvs[3], q.uvs[4], q.uvs[1]>>)
        WithQuads(quads) ==
            IF part.rotation[1] = 0 /\ part.rotation[2] = 0 /\ part.rotation[3] = 0
            THEN quads
            ELSE [k \in 1..Len(quads) |-> Transformed(quads[k])]
    IN  WithQuads(GetFaceQuads(part))

\* get_transformed_quads.
GetTransformedQuads(part) ==
    LET NewVert(v) == RotatePoint(v[1], v[2], v[3], part.pivot, part.rotation)
        Transformed(q) ==
            Quad(q.face, [n \in 1..Len(q.verts) |-> NewVert(q.verts[n])], q.uvs)
        WithQuads(quads) ==
            IF part.rotation[1] = 0 /\ part.rotation[2] = 0 /\ part.rotation[3] = 0
            THEN quads
            ELSE [k \in 1..Len(quads) |-> Transformed(quads[k])]
    IN  WithQuads(GetFaceQuads(part))

\* SteveModel.__init__: the classic model, 4-pixel-wide arms.
SteveBaseParts ==
    << BoxPart("head",     I3(-4, 24, -4),    I3(8, 8, 8),  I2(0, 0),   Zero, I3(0, 24, 0)),
       BoxPart("body",     I3(-4, 12, -2),    I3(8, 12, 4), I2(16, 16), Zero, I3(0, 24, 0)),
       BoxPart("rightArm", I3(-8, 12, -2),    I3(4, 12, 4), I2(40, 16), Zero, I3(-5, 22, 0)),
       BoxPart("leftArm",  I3(4, 12, -2),     I3(4, 12, 4), I2(32, 48), Zero, I3(5, 22, 0)),
       BoxPart("rightLeg", T3(-39, 0, -20),   I3(4, 12, 4), I2(0, 16),  Zero, T3(-19, 120, 0)),
       BoxPart("leftLeg",  T3(-1, 0, -20),    I3(4, 12, 4), I2(16, 48), Zero, T3(19, 120, 0)) >>

Half == Rat(1, 2)

SteveOverlayParts ==
    << BoxPart("hat",         I3(-4, 24, -4),  I3(8, 8, 8),  I2(32, 0),  Half, I3(0, 24, 0)),
       BoxPart("jacket",      I3(-4, 12, -2),  I3(8, 12, 4), I2(16, 32), Half, I3(0, 24, 0)),
       BoxPart("rightSleeve", I3(-8, 12, -2),  I3(4, 12, 4), I2(40, 32), Half, I3(-5, 22, 0)),
       BoxPart("leftSleeve",  I3(4, 12, -2),   I3(4, 12, 4), I2(48, 48), Half, I3(5, 22, 0)),
       BoxPart("rightPants",  T3(-39, 0, -20), I3(4, 12, 4), I2(0, 32),  Half, T3(-19, 120, 0)),
       BoxPart("leftPants",   T3(-1, 0, -20),  I3(4, 12, 4), I2(0, 48),  Half, T3(19, 120, 0)) >>

\* AlexModel.__init__: the slim model, 3-pixel-wide arms.
AlexBaseParts ==
    << BoxPart("head",     I3(-4, 24, -4),    I3(8, 8, 8),  I2(0, 0),   Zero, I3(0, 24, 0)),
       BoxPart("body",     I3(-4, 12, -2),    I3(8, 12, 4), I2(16, 16), Zero, I3(0, 24, 0)),
       BoxPart("rightArm", I3(-7, 12, -2),    I3(3, 12, 4), I2(40, 16), Zero, T3(-50, 215, 0)),
       BoxPart("leftArm",  I3(4, 12, -2),     I3(3, 12, 4), I2(32, 48), Zero, T3(50, 215, 0)),
       BoxPart("rightLeg", T3(-39, 0, -20),   I3(4, 12, 4), I2(0, 16),  Zero, T3(-19, 120, 0)),
       BoxPart("leftLeg",  T3(-1, 0, -20),    I3(4, 12, 4), I2(16, 48), Zero, T3(19, 120, 0)) >>

\* A slim overlay layer copied from the classic one and left unchanged.
AlexOverlayPartsAsClassic == SteveOverlayParts

AlexOverlayParts ==
    << BoxPart("hat",         I3(-4, 24, -4),  I3(8, 8, 8),  I2(32, 0),  Half, I3(0, 24, 0)),
       BoxPart("jacket",      I3(-4, 12, -2),  I3(8, 12, 4), I2(16, 32), Half, I3(0, 24, 0)),
       BoxPart("rightSleeve", I3(-7, 12, -2),  I3(3, 12, 4), I2(40, 32), Half, T3(-50, 215, 0)),
       BoxPart("leftSleeve",  I3(4, 12, -2),   I3(3, 12, 4), I2(48, 48), Half, T3(50, 215, 0)),
       BoxPart("rightPants",  T3(-39, 0, -20), I3(4, 12, 4), I2(0, 32),  Half, T3(-19, 120, 0)),
       BoxPart("leftPants",   T3(-1, 0, -20),  I3(4, 12, 4), I2(0, 48),  Half, T3(19, 120, 0)) >>

Variants == {"classic", "slim"}
ModelBaseParts(v) == IF v = "classic" THEN SteveBaseParts ELSE AlexBaseParts
ModelOverlayParts(v) == IF v = "classic" THEN SteveOverlayParts ELSE AlexOverlayParts

\* PlayerModel.get_all_parts.
GetAllParts(base, overlay) == base \o overlay

----------------------------------------------------------------------------
(* mathutil.py: 4x4 matrices as column-major sequences of 16 numbers; the  *)
(* source's m[k] is m[k + 1] here.                                         *)

identity ==
    << One, Zero, Zero, Zero,
       Zero, One, Zero, Zero,
       Zero, Zero, One, Zero,
       Zero, Zero, Zero, One >>

\* The singularity threshold of mat4_inverse, and the degeneracy thresholds
\* of _unproject: 1e-12, held as its decimal exponent.
TOL_EXP == 12

\* A mat4_inverse that returns the cofactor matrix as it is, not divided by
\* the determinant.
Mat4InverseUnscaled(m) ==
    LET T(a, b, c) == Mul(Mul(m[a + 1], m[b + 1]), m[c + 1])
        c0 == Sub(Add(Add(Sub(Sub(T(5, 10, 15), T(5, 11, 14)), T(9, 6, 15)), T(9, 7, 14)), T(13, 6, 11)), T(13, 7, 10))
        c1 == Add(Sub(Sub(Add(Add(Neg(T(1, 10, 15)), T(1, 11, 14)), T(9, 2, 15)), T(9, 3, 14)), T(13, 2, 11)), T(13, 3, 10))
        c2 == Sub(Add(Add(Sub(Sub(T(1, 6, 15), T(1, 7, 14)), T(5, 2, 15)), T(5, 3, 14)), T(13, 2, 7)), T(13, 3, 6))
        c3 == Add(Sub(Sub(Add(Add(Neg(T(1, 6, 11)), T(1, 7, 10)), T(5, 2, 11)), T(5, 3, 10)), T(9, 2, 7)), T(9, 3, 6))
        c4 == Add(Sub(Sub(Add(Add(Neg(T(4, 10, 15)), T(4, 11, 14)), T(8, 6, 15)), T(8, 7, 14)), T(12, 6, 11)), T(12, 7, 10))
        c5 == Sub(Add(Add(Sub(Sub(T(0, 10, 15), T(0, 11, 14)), T(8, 2, 15)), T(8, 3, 14)), T(12, 2, 11)), T(12, 3, 10))
        c6 == Add(Sub(Sub(Add(Add(Neg(T(0, 6, 15)), T(0, 7, 14)), T(4, 2, 15)), T(4, 3, 14)), T(12, 2, 7)), T(12, 3, 6))
        c7 == Sub(Add(Add(Sub(Sub(T(0, 6, 11), T(0, 7, 10)), T(4, 2, 11)), T(4, 3, 10)), T(8, 2, 7)), T(8, 3, 6))
        c8 == Sub(Add(Add(Sub(Sub(T(4, 9, 15), T(4, 11, 13)), T(8, 5, 15)), T(8, 7, 13)), T(12, 5, 11)), T(12, 7, 9))
        c9 == Add(Sub(Sub(Add(Add(Neg(T(0, 9, 15)), T(0, 11, 13)), T(8, 1, 15)), T(8, 3, 13)), T(12, 1, 11)), T(12, 3, 9))
        c10 == Sub(Add(Add(Sub(Sub(T(0, 5, 15), T(0, 7, 13)), T(4, 1, 15)), T(4, 3, 13)), T(12, 1, 7)), T(12, 3, 5))
        c11 == Add(Sub(Sub(Add(Add(Neg(T(0, 5, 11)), T(0, 7, 9)), T(4, 1, 11)), T(4, 3, 9)), T(8, 1, 7)), T(8, 3, 5))
        c12 == Add(Sub(Sub(Add(Add(Neg(T(4, 9, 14)), T(4, 10, 13)), T(8, 5, 14)), T(8, 6, 13)), T(12, 5, 10)), T(12, 6, 9))
        c13 == Sub(Add(Add(Sub(Sub(T(0, 9, 14), T(0, 10, 13)), T(8, 1, 14)), T(8, 2, 13)), T(12, 1, 10)), T(12, 2, 9))
        c14 == Add(Sub(Sub(Add(Add(Neg(T(0, 5, 14)), T(0, 6, 13)), T(4, 1, 14)), T(4, 2, 13)), T(12, 1, 6)), T(12, 2, 5))
        c15 == Sub(Add(Add(Sub(Sub(T(0, 5, 10), T(0, 6, 9)), T(4, 1, 10)), T(4, 2, 9)), T(8, 1, 6)), T(8, 2, 5))
        WithRdet(inv, rdet) == [ k \in 1..16 |-> Mul(inv[k], rdet) ]
        WithDet(inv, det) ==
            IF BelowPow10(AbsN(det), TOL_EXP) THEN None
            ELSE WithRdet(inv, One)
        WithInv(inv) ==
            WithDet(inv, Add(Add(Add(Mul(m[1], inv[1]), Mul(m[2], inv[5])),
                                 Mul(m[3], inv[9])), Mul(m[4], inv[13])))
    IN  WithInv(<<c0, c1, c2, c3, c4, c5, c6, c7, c8, c9, c10, c11, c12, c13,
                  c14, c15>>)

\* mat4_inverse: the sixteen cofactors, the determinant along the first
\* column of the cofactor matrix, None for a singular matrix.
Mat4Inverse(m) ==
    LET T(a, b, c) == Mul(Mul(m[a + 1], m[b + 1]), m[c + 1])
        c0 == Sub(Add(Add(Sub(Sub(T(5, 10, 15), T(5, 11, 14)), T(9, 6, 15)), T(9, 7, 14)), T(13, 6, 11)), T(13, 7, 10))
        c1 == Add(Sub(Sub(Add(Add(Neg(T(1, 10, 15)), T(1, 11, 14)), T(9, 2, 15)), T(9, 3, 14)), T(13, 2, 11)), T(13, 3, 10))
        c2 == Sub(Add(Add(Sub(Sub(T(1, 6, 15), T(1, 7, 14)), T(5, 2, 15)), T(5, 3, 14)), T(13, 2, 7)), T(13, 3, 6))
        c3 == Add(Sub(Sub(Add(Add(Neg(T(1, 6, 11)), T(1, 7, 10)), T(5, 2, 11)), T(5, 3, 10)), T(9, 2, 7)), T(9, 3, 6))
        c4 == Add(Sub(Sub(Add(Add(Neg(T(4, 10, 15)), T(4, 11, 14)), T(8, 6, 15)), T(8, 7, 14)), T(12, 6, 11)), T(12, 7, 10))
        c5 == Sub(Add(Add(Sub(Sub(T(0, 10, 15), T(0, 11, 14)), T(8, 2, 15)), T(8, 3, 14)), T(12, 2, 11)), T(12, 3, 10))
        c6 == Add(Sub(Sub(Add(Add(Neg(T(0, 6, 15)), T(0, 7, 14)), T(4, 2, 15)), T(4, 3, 14)), T(12, 2, 7)), T(12, 3, 6))
        c7 == Sub(Add(Add(Sub(Sub(T(0, 6, 11), T(0, 7, 10)), T(4, 2, 11)), T(4, 3, 10)), T(8, 2, 7)), T(8, 3, 6))
        c8 == Sub(Add(Add(Sub(Sub(T(4, 9, 15), T(4, 11, 13)), T(8, 5, 15)), T(8, 7, 13)), T(12, 5, 11)), T(12, 7, 9))
        c9 == Add(Sub(Sub(Add(Add(Neg(T(0, 9, 15)), T(0, 11, 13)), T(8, 1, 15)), T(8, 3, 13)), T(12, 1, 11)), T(12, 3, 9))
        c10 == Sub(Add(Add(Sub(Sub(T(0, 5, 15), T(0, 7, 13)), T(4, 1, 15)), T(4, 3, 13)), T(12, 1, 7)), T(12, 3, 5))
        c11 == Add(Sub(Sub(Add(Add(Neg(T(0, 5, 11)), T(0, 7, 9)), T(4, 1, 11)), T(4, 3, 9)), T(8, 1, 7)), T(8, 3, 5))
        c12 == Add(Sub(Sub(Add(Add(Neg(T(4, 9, 14)), T(4, 10, 13)), T(8, 5, 14)), T(8, 6, 13)), T(12, 5, 10)), T(12, 6, 9))
        c13 == Sub(Add(Add(Sub(Sub(T(0, 9, 14), T(0, 10, 13)), T(8, 1, 14)), T(8, 2, 13)), T(12, 1, 10)), T(12, 2, 9))
        c14 == Add(Sub(Sub(Add(Add(Neg(T(0, 5, 14)), T(0, 6, 13)), T(4, 1, 14)), T(4, 2, 13)), T(12, 1, 6)), T(12, 2, 5))
        c15 == Sub(Add(Add(Sub(Sub(T(0, 5, 10), T(0, 6, 9)), T(4, 1, 10)), T(4, 2, 9)), T(8, 1, 6)), T(8, 2, 5))
        WithRdet(inv, rdet) == [ k \in 1..16 |-> Mul(inv[k], rdet) ]
        WithDet(inv, det) ==
            IF BelowPow10(AbsN(det), TOL_EXP) THEN None
            ELSE WithRdet(inv, Div(One, det))
        WithInv(inv) ==
            WithDet(inv, Add(Add(Add(Mul(m[1], inv[1]), Mul(m[2], inv[5])),
                                 Mul(m[3], inv[9])), Mul(m[4], inv[13])))
    IN  WithInv(<<c0, c1, c2, c3, c4, c5, c6, c7, c8, c9, c10, c11, c12, c13,
                  c14, c15>>)

\* mat4_mul_vec4.
Mat4MulVec4(m, v) ==
    LET x == v[1]
        y == v[2]
        z == v[3]
        w == v[4]
    IN  << Add(Add(Add(Mul(m[1], x), Mul(m[5], y)), Mul(m[9], z)), Mul(m[13], w)),
           Add(Add(Add(Mul(m[2], x), Mul(m[6], y)), Mul(m[10], z)), Mul(m[14], w)),
           Add(Add(Add(Mul(m[3], x), Mul(m[7], y)), Mul(m[11], z)), Mul(m[15], w)),
           Add(Add(Add(Mul(m[4], x), Mul(m[8], y)), Mul(m[12], z)), Mul(m[16], w)) >>

\* mat4_multiply.
Mat4Multiply(a, b) ==
    [ i \in 1..16 |->
        LET row == (i - 1) % 4
            col == (i - 1) \div 4
        IN  Add(Add(Add(Mul(a[0 * 4 + row + 1], b[col * 4 + 0 + 1]),
                        Mul(a[1 * 4 + row + 1], b[col * 4 + 1 + 1])),
                    Mul(a[2 * 4 + row + 1], b[col * 4 + 2 + 1])),
                Mul(a[3 * 4 + row + 1], b[col * 4 + 3 + 1])) ]

----------------------------------------------------------------------------
(* interaction.py                                                          *)

\* EPSILON = 1e-7 of _ray_triangle_intersect, held as its decimal exponent.
EPSILON_EXP == 7

\* The outcomes of _unproject: a ray ("ok"), (None, None) ("none"), the
\* ZeroDivisionError of a zero viewport size ("raised"), and a direction whose
\* length is outside the model's numbers ("inexact").
Ray(status, origin, direction) ==
    [status |-> status, origin |-> origin, direction |-> direction]
NoRay == Ray("none", None, None)

V3Sub(a, b) == <<Sub(a[1], b[1]), Sub(a[2], b[2]), Sub(a[3], b[3])>>
Dot3(a, b) == Add(Add(Mul(a[1], b[1]), Mul(a[2], b[2])), Mul(a[3], b[3]))
Cross3(a, b) ==
    << Sub(Mul(a[2], b[3]), Mul(a[3], b[2])),
       Sub(Mul(a[3], b[1]), Mul(a[1], b[3])),
       Sub(Mul(a[1], b[2]), Mul(a[2], b[1])) >>

\* The perspective divide of _unproject: tuple(c / v[3] for c in v).
DivideByW(v) == <<Div(v[1], v[4]), Div(v[2], v[4]), Div(v[3], v[4]), Div(v[4], v[4])>>

\* An _unproject that returns far - near as it is, not divided by its length.
UnprojectUnnormalised(mx, my, viewport_w, viewport_h, proj, view) ==
    LET WithLength(origin, direction, dl) ==
            IF dl = Inexact THEN Ray("inexact", None, None)
            ELSE IF BelowPow10(dl, TOL_EXP) THEN NoRay
            ELSE Ray("ok", origin, direction)
        WithDirection(origin, direction) ==
            WithLength(origin, direction, Sqrt(Dot3(direction, direction)))
        WithWorld(near_world, far_world) ==
            WithDirection(<<near_world[1], near_world[2], near_world[3]>>,
                          V3Sub(far_world, near_world))
        WithEye(inv_view, near_eye, far_eye) ==
            IF BelowPow10(AbsN(near_eye[4]), TOL_EXP)
               \/ BelowPow10(AbsN(far_eye[4]), TOL_EXP) THEN NoRay
            ELSE WithWorld(Mat4MulVec4(inv_view, DivideByW(near_eye)),
                           Mat4MulVec4(inv_view, DivideByW(far_eye)))
        WithInverses(ndc_x, ndc_y, inv_proj, inv_view) ==
            IF inv_proj = None \/ inv_view = None THEN NoRay
            ELSE WithEye(inv_view,
                         Mat4MulVec4(inv_proj, <<ndc_x, ndc_y, Neg(One), One>>),
                         Mat4MulVec4(inv_proj, <<ndc_x, ndc_y, One, One>>))
        WithNdc(ndc_x, ndc_y) ==
            WithInverses(ndc_x, ndc_y, Mat4Inverse(proj), Mat4Inverse(view))
    IN  IF viewport_w = Zero \/ viewport_h = Zero
        THEN Ray("raised", None, None)
        ELSE WithNdc(Sub(Div(Mul(Two, mx), viewport_w), One),
                     Sub(One, Div(Mul(Two, my), viewport_h)))

\* An _unproject that takes the widget's y to grow upwards, as x grows to the
\* right.
UnprojectYUp(mx, my, viewport_w, viewport_h, proj, view) ==
    LET WithLength(origin, direction, dl) ==
            IF dl = Inexact THEN Ray("inexact", None, None)
            ELSE IF BelowPow10(dl, TOL_EXP) THEN NoRay
            ELSE Ray("ok", origin,
                     <<Div(direction[1], dl), Div(direction[2], dl),
                       Div(direction[3], dl)>>)
        WithDirection(origin, direction) ==
            WithLength(origin, direction, Sqrt(Dot3(direction, direction)))
        WithWorld(near_world, far_world) ==
            WithDirection(<<near_world[1], near_world[2], near_world[3]>>,
                          V3Sub(far_world, near_world))
        WithEye(inv_view, near_eye, far_eye) ==
            IF BelowPow10(AbsN(near_eye[4]), TOL_EXP)
               \/ BelowPow10(AbsN(far_eye[4]), TOL_EXP) THEN NoRay
            ELSE WithWorld(Mat4MulVec4(inv_view, DivideByW(near_eye)),
                           Mat4MulVec4(inv_view, DivideByW(far_eye)))
        WithInverses(ndc_x, ndc_y, inv_proj, inv_view) ==
            IF inv_proj = None \/ inv_view = None THEN NoRay
            ELSE WithEye(inv_view,
                         Mat4MulVec4(inv_proj, <<ndc_x, ndc_y, Neg(One), One>>),
                         Mat4MulVec4(inv_proj, <<ndc_x, ndc_y, One, One>>))
        WithNdc(ndc_x, ndc_y) ==
            WithInverses(ndc_x, ndc_y, Mat4Inverse(proj), Mat4Inverse(view))
    IN  IF viewport_w = Zero \/ viewport_h = Zero
        THEN Ray("raised", None, None)
        ELSE WithNdc(Sub(Div(Mul(Two, mx), viewport_w), One),
                     Sub(Div(Mul(Two, my), viewport_h), One))

\* _unproject.
Unproject(mx, my, viewport_w, viewport_h, proj, view) ==
    LET WithLength(origin, direction, dl) ==
            IF dl = Inexact THEN Ray("inexact", None, None)
            ELSE IF BelowPow10(dl, TOL_EXP) THEN NoRay
            ELSE Ray("ok", origin,
                     <<Div(direction[1], dl), Div(direction[2], dl),
                       Div(direction[3], dl)>>)
        WithDirection(origin, direction) ==
            WithLength(origin, direction, Sqrt(Dot3(direction, direction)))
        WithWorld(near_world, far_world) ==
            WithDirection(<<near_world[1], near_world[2], near_world[3]>>,
                          V3Sub(far_world, near_world))
        WithEye(inv_view, near_eye, far_eye) ==
            IF BelowPow10(AbsN(near_eye[4]), TOL_EXP)
               \/ BelowPow10(AbsN(far_eye[4]), TOL_EXP) THEN NoRay
            ELSE WithWorld(Mat4MulVec4(inv_view, DivideByW(near_eye)),
                           Mat4MulVec4(inv_view, DivideByW(far_eye)))
        WithInverses(ndc_x, ndc_y, inv_proj, inv_view) ==
            IF inv_proj = None \/ inv_view = None THEN NoRay
            ELSE WithEye(inv_view,
                         Mat4MulVec4(inv_proj, <<ndc_x, ndc_y, Neg(One), One>>),
                         Mat4MulVec4(inv_proj, <<ndc_x, ndc_y, One, One>>))
        WithNdc(ndc_x, ndc_y) ==
            WithInverses(ndc_x, ndc_y, Mat4Inverse(proj), Mat4Inverse(view))
    IN  IF viewport_w = Zero \/ viewport_h = Zero
        THEN Ray("raised", None, None)
        ELSE WithNdc(Sub(Div(Mul(Two, mx), viewport_w), One),
                     Sub(One, Div(Mul(Two, my), viewport_h)))

\* A _ray_triangle_intersect that rejects u + v >= 1: the edge from v1 to v2
\* is left out of the triangle.
RayTriangleIntersectOpen(origin, direction, v0, v1, v2, uv0, uv1, uv2) ==
    LET WithW0(t, u, v, w0) ==
            << t,
               Add(Add(Mul(w0, uv0[1]), Mul(u, uv1[1])), Mul(v, uv2[1])),
               Add(Add(Mul(w0, uv0[2]), Mul(u, uv1[2])), Mul(v, uv2[2])) >>
        WithT(u, v, t) ==
            IF BelowPow10(t, EPSILON_EXP) THEN None
            ELSE WithW0(t, u, v, Sub(Sub(One, u), v))
        WithV(e2, f, q, u, v) ==
            IF Lt(v, Zero) \/ ~Lt(Add(u, v), One) THEN None
            ELSE WithT(u, v, Mul(f, Dot3(e2, q)))
        WithQ(e2, f, u, q) ==
            WithV(e2, f, q, u, Mul(f, Dot3(direction, q)))
        WithU(e1, e2, f, s, u) ==
            IF Lt(u, Zero) \/ Gt(u, One) THEN None
            ELSE WithQ(e2, f, u, Cross3(s, e1))
        WithS(e1, e2, h, f, s) == WithU(e1, e2, f, s, Mul(f, Dot3(s, h)))
        WithA(e1, e2, h, a) ==
            IF BelowPow10(AbsN(a), EPSILON_EXP) THEN None
            ELSE WithS(e1, e2, h, Div(One, a), V3Sub(origin, v0))
        WithH(e1, e2, h) == WithA(e1, e2, h, Dot3(e1, h))
        WithEdges(e1, e2) == WithH(e1, e2, Cross3(direction, e2))
    IN  WithEdges(V3Sub(v1, v0), V3Sub(v2, v0))

\* _ray_triangle_intersect (Moller-Trumbore): <<t, tex_u, tex_v>> or None.
RayTriangleIntersect(origin, direction, v0, v1, v2, uv0, uv1, uv2) ==
    LET WithW0(t, u, v, w0) ==
            << t,
               Add(Add(Mul(w0, uv0[1]), Mul(u, uv1[1])), Mul(v, uv2[1])),
               Add(Add(Mul(w0, uv0[2]), Mul(u, uv1[2])), Mul(v, uv2[2])) >>
        WithT(u, v, t) ==
            IF BelowPow10(t, EPSILON_EXP) THEN None
            ELSE WithW0(t, u, v, Sub(Sub(One, u), v))
        WithV(e2, f, q, u, v) ==
            IF Lt(v, Zero) \/ Gt(Add(u, v), One) THEN None
            ELSE WithT(u, v, Mul(f, Dot3(e2, q)))
        WithQ(e2, f, u, q) ==
            WithV(e2, f, q, u, Mul(f, Dot3(direction, q)))
        WithU(e1, e2, f, s, u) ==
            IF Lt(u, Zero) \/ Gt(u, One) THEN None
            ELSE WithQ(e2, f, u, Cross3(s, e1))
        WithS(e1, e2, h, f, s) == WithU(e1, e2, f, s, Mul(f, Dot3(s, h)))
        WithA(e1, e2, h, a) ==
            IF BelowPow10(AbsN(a), EPSILON_EXP) THEN None
            ELSE WithS(e1, e2, h, Div(One, a), V3Sub(origin, v0))
        WithH(e1, e2, h) == WithA(e1, e2, h, Dot3(e1, h))
        WithEdges(e1, e2) == WithH(e1, e2, Cross3(direction, e2))
    IN  WithEdges(V3Sub(v1, v0), V3Sub(v2, v0))

\* A _ray_quad_intersect that tests triangle (0,2,3) first.
RayQuadIntersectSecondFirst(origin, direction, verts, uvs) ==
    LET WithResult(result) ==
            IF result # None THEN result
            ELSE RayTriangleIntersect(origin, direction,
                                      verts[1], verts[2], verts[3],
                                      uvs[1], uvs[2], uvs[3])
    IN  WithResult(RayTriangleIntersect(origin, direction,
                                        verts[1], verts[3], verts[4],
                                        uvs[1], uvs[3], uvs[4]))

\* _ray_quad_intersect: triangle (0,1,2), then triangle (0,2,3).
RayQuadIntersect(origin, direction, verts, uvs) ==
    LET WithResult(result) ==
            IF result # None THEN result
            ELSE RayTriangleIntersect(origin, direction,
                                      verts[1], verts[3], verts[4],
                                      uvs[1], uvs[3], uvs[4])
    IN  WithResult(RayTriangleIntersect(origin, direction,
                                        verts[1], verts[2], verts[3],
                                        uvs[1], uvs[2], uvs[3]))

\* float('inf'): a triple no number equals.
Inf == <<1, 0, 0>>

\* Closer with the comparison hit[0] <= best_t: a later hit at the same
\* distance replaces the earlier one.
CloserOrEqual(t, best_t) == best_t = Inf \/ Le(t, best_t)

\* hit[0] < best_t in pick, with best_t starting at float('inf').
Closer(t, best_t) == best_t = Inf \/ Lt(t, best_t)

\* The initial best of a pick that starts from distance 1 instead of
\* infinity: a hit farther than that is never taken.
InitialBestNear == [best_t |-> One, best_uv |-> None, hits |-> <<>>, winner |-> 0]

\* best_t, best_uv before the loops of pick; hits and winner record, for the
\* properties, every hit of the loops in order and the one that set best_uv.
InitialBest == [best_t |-> Inf, best_uv |-> None, hits |-> <<>>, winner |-> 0]

\* The body of the inner loop of pick for one quad.
TestQuad(origin, direction, name, quad, acc) ==
    LET Rec(hit) == [part |-> name, face |-> quad.face, t |-> hit[1],
                     uv |-> <<hit[2], hit[3]>>]
        WithHits(hit, hits) ==
            IF Closer(hit[1], acc.best_t)
            THEN [best_t |-> hit[1], best_uv |-> <<hit[2], hit[3]>>,
                  hits |-> hits, winner |-> Len(hits)]
            ELSE [acc EXCEPT !.hits = hits]
        WithHit(hit) ==
            IF hit = None THEN acc
            ELSE WithHits(hit, Append(acc.hits, Rec(hit)))
    IN  WithHit(RayQuadIntersect(origin, direction, quad.verts, quad.uvs))

\* The inner loop of pick over the quads of one part, from quad k on.  acc is
\* never without its winner field: reading it in the loop test has each
\* iteration evaluated before the next one starts.
RECURSIVE ScanQuads(_, _, _, _, _, _)
ScanQuads(origin, direction, name, quads, k, acc) ==
    IF k <= Len(quads) /\ acc.winner >= 0
    THEN ScanQuads(origin, direction, name, quads, k + 1,
                   TestQuad(origin, direction, name, quads[k], acc))
    ELSE acc

\* The outer loop of pick over the parts, from part i on.
RECURSIVE ScanParts(_, _, _, _, _)
ScanParts(origin, direction, parts, i, acc) ==
    IF i <= Len(parts) /\ acc.winner >= 0
    THEN ScanParts(origin, direction, parts, i + 1,
                   ScanQuads(origin, direction, parts[i].name,
                             GetTransformedQuads(parts[i]), 1, acc))
    ELSE acc

\* The parts of a pick that ignores overlay_visible.
PickPartsAlways(base, overlay, overlay_visible) == GetAllParts(base, overlay)

\* The parts pick iterates.
PickParts(base, overlay, overlay_visible) ==
    IF overlay_visible THEN GetAllParts(base, overlay) ELSE base

\* The conversion without its clamps.
TexelUnclamped(best_uv) ==
    << TruncInt(Mul(best_uv[1], Num(TEX_W))),
       TruncInt(Mul(best_uv[2], Num(TEX_H))) >>

\* The conversion of the winning UV to a texel, clamped into the atlas.
Texel(best_uv) ==
    LET px == TruncInt(Mul(best_uv[1], Num(TEX_W)))
        py == TruncInt(Mul(best_uv[2], Num(TEX_H)))
    IN  << Max2(0, Min2(TEX_W - 1, px)), Max2(0, Min2(TEX_H - 1, py)) >>

\* RayCaster.pick on the parts of the model.  The value holds the result
\* (status "ok": a texel or None; "raised": the exception of _unproject;
\* "inexact": outside the model's numbers) and, for the properties, the locals
\* of the call: the ray, the parts iterated with the rotation read from each,
\* and the record of the loops.
PickCall(mx, my, viewport_w, viewport_h, proj, view, base, overlay, overlay_visible) ==
    LET WithScan(ray, parts, scan) ==
            [status |-> "ok", ray |-> ray,
             tested |-> [i \in 1..Len(parts) |-> parts[i].name],
             observed |-> [i \in 1..Len(parts) |-> parts[i].rotation],
             scan |-> scan,
             result |-> IF scan.best_uv = None THEN None
                        ELSE Texel(scan.best_uv)]
        WithParts(ray, parts) ==
            WithScan(ray, parts,
                     ScanParts(ray.origin, ray.direction, parts, 1, InitialBest))
        WithRay(ray) ==
            IF ray.status # "ok"
            THEN [status |-> IF ray.status = "none" THEN "ok" ELSE ray.status,
                  ray |-> ray, tested |-> <<>>, observed |-> <<>>,
                  scan |-> InitialBest, result |-> None]
            ELSE WithParts(ray, PickParts(base, overlay, overlay_visible))
    IN  WithRay(Unproject(mx, my, viewport_w, viewport_h, proj, view))

----------------------------------------------------------------------------
(* mathutil.py: the camera builders.                                       *)

\* math.tan(math.radians(fov_deg) / 2.0) for fov_deg = 90 and the multiples
\* of 60.
TanHalf(fov_deg) ==
    IF fov_deg = 90 THEN One
    ELSE Div(SinDeg(fov_deg \div 2), CosDeg(fov_deg \div 2))

\* perspective.
Perspective(fov_deg, aspect, near, far) ==
    LET WithF(f, nf) ==
            << Div(f, aspect), Zero, Zero, Zero,
               Zero, f, Zero, Zero,
               Zero, Zero, Div(Add(far, near), nf), Neg(One),
               Zero, Zero, Div(Mul(Mul(Two, far), near), nf), Zero >>
    IN  WithF(Div(One, TanHalf(fov_deg)), Sub(near, far))

\* A vector divided by its length fl.
Scaled(v, fl) == [k \in 1..3 |-> Div(v[k], fl)]

\* look_at, for eye, center and up that give exact lengths.
LookAt(eye, center, up) ==
    LET WithU(f, s, u) ==
            << s[1], u[1], Neg(f[1]), Zero,
               s[2], u[2], Neg(f[2]), Zero,
               s[3], u[3], Neg(f[3]), Zero,
               Neg(Dot3(s, eye)), Neg(Dot3(u, eye)), Dot3(f, eye), One >>
        WithS(f, s) == WithU(f, s, Cross3(s, f))
        WithS0(f, s0) == WithS(f, Scaled(s0, Sqrt(Dot3(s0, s0))))
        WithF(f) == WithS0(f, Cross3(f, up))
        WithF0(f0) == WithF(Scaled(f0, Sqrt(Dot3(f0, f0))))
    IN  WithF0(V3Sub(center, eye))

\* What a call of look_at does: it returns a matrix or raises.
LookAtOutcome(raised, result) == [raised |-> raised, result |-> result]

\* look_at with its failures: "fx /= fl" and "sx /= sl" are float divisions,
\* and Python raises ZeroDivisionError on a float division by 0.0.
LookAtOrRaise(eye, center, up) ==
    LET WithSl(sl) ==
            IF sl = Zero THEN LookAtOutcome(TRUE, None)
            ELSE LookAtOutcome(FALSE, LookAt(eye, center, up))
        WithS0(s0) == WithSl(Sqrt(Dot3(s0, s0)))
        WithFl(f0, fl) ==
            IF fl = Zero THEN LookAtOutcome(TRUE, None)
            ELSE WithS0(Cross3(Scaled(f0, fl), up))
        WithF0(f0) == WithFl(f0, Sqrt(Dot3(f0, f0)))
    IN  WithF0(V3Sub(center, eye))

----------------------------------------------------------------------------
(* model.py: poses.                                                        *)

\* Python's "sub in s" on strings.
Contains(sub, s) ==
    \E i \in 1..(Len(s) - Len(sub) + 1) : SubSeq(s, i, i + Len(sub) - 1) = sub

\* Pose loops whose walking rules give both arms the same swing.
PoseRotationSameSwing(pose_index, name, old) ==
    IF pose_index = 1
    THEN IF Contains("Arm", name) \/ Contains("Sleeve", name)
         THEN <<30, 0, 0>>
         ELSE IF Contains("rightLeg", name) \/ Contains("rightPants", name)
         THEN <<-30, 0, 0>>
         ELSE IF Contains("leftLeg", name) \/ Contains("leftPants", name)
         THEN <<30, 0, 0>>
         ELSE old
    ELSE IF pose_index = 2
    THEN IF Contains("rightArm", name) \/ Contains("rightSleeve", name)
         THEN <<0, 0, 90>>
         ELSE IF Contains("leftArm", name) \/ Contains("leftSleeve", name)
         THEN <<0, 0, -90>>
         ELSE old
    ELSE old

\* Pose loops whose arms-out rules match "right" and "left" alone, and so
\* take the legs and pants as well.
PoseRotationBySide(pose_index, name, old) ==
    IF pose_index = 1
    THEN IF Contains("rightArm", name) \/ Contains("rightSleeve", name)
         THEN <<30, 0, 0>>
         ELSE IF Contains("leftArm", name) \/ Contains("leftSleeve", name)
         THEN <<-30, 0, 0>>
         ELSE IF Contains("rightLeg", name) \/ Contains("rightPants", name)
         THEN <<-30, 0, 0>>
         ELSE IF Contains("leftLeg", name) \/ Contains("leftPants", name)
         THEN <<30, 0, 0>>
         ELSE old
    ELSE IF pose_index = 2
    THEN IF Contains("right", name) THEN <<0, 0, 90>>
         ELSE IF Contains("left", name) THEN <<0, 0, -90>>
         ELSE old
    ELSE old

\* The rotation one pass of the pose loops of _apply_pose leaves on a part
\* that had rotation old: the walking rules, the arms-out rules, or no
\* assignment at all.
PoseRotation(pose_index, name, old) ==
    IF pose_index = 1
    THEN IF Contains("rightArm", name) \/ Contains("rightSleeve", name)
         THEN <<30, 0, 0>>
         ELSE IF Contains("leftArm", name) \/ Contains("leftSleeve", name)
         THEN <<-30, 0, 0>>
         ELSE IF Contains("rightLeg", name) \/ Contains("rightPants", name)
         THEN <<-30, 0, 0>>
         ELSE IF Contains("leftLeg", name) \/ Contains("leftPants", name)
         THEN <<30, 0, 0>>
         ELSE old
    ELSE IF pose_index = 2
    THEN IF Contains("rightArm", name) \/ Contains("rightSleeve", name)
         THEN <<0, 0, 90>>
         ELSE IF Contains("leftArm", name) \/ Contains("leftSleeve", name)
         THEN <<0, 0, -90>>
         ELSE old
    ELSE old

\* A first loop that assigns nothing.
ResetRotationKept(part) == part

\* The first loop of _apply_pose: part.rotation = (0, 0, 0).
ResetRotation(part) == [part EXCEPT !.rotation = <<0, 0, 0>>]

\* A second loop that assigns nothing.
PosePartKept(pose_index, part) == part

\* The second loop of _apply_pose, for one part.
PosePart(pose_index, part) ==
    [part EXCEPT !.rotation = PoseRotation(pose_index, part.name, part.rotation)]

\* PlayerModel._apply_pose on the parts of get_all_parts(), run to its end.
ApplyPose(parts, pose_index) ==
    LET reset == [i \in 1..Len(parts) |-> ResetRotation(parts[i])]
    IN  [i \in 1..Len(parts) |-> PosePart(pose_index, reset[i])]

----------------------------------------------------------------------------
(* The host: the inputs it hands to set_pose and pick.                     *)

\* Pose indices -1 .. MaxPoseIndex: the three poses and indices that name none.
MaxPoseIndex == 3
PoseIndices == (-1)..MaxPoseIndex

\* The viewport of the tests, and a grid of cursor positions over it, corners
\* and edges included.
ViewportW == 600
ViewportH == 700
GridN == 4
CursorX(i) == Rat(i * ViewportW, GridN)
CursorY(j) == Rat(j * ViewportH, GridN)

\* An orthographic projection onto the box [-hw, hw] x [-hh, hh] x [-hd, hd].
OrthoProj(hw, hh, hd) ==
    << Rat(1, hw), Zero, Zero, Zero,
       Zero, Rat(1, hh), Zero, Zero,
       Zero, Zero, Rat(-1, hd), Zero,
       Zero, Zero, Zero, One >>

ZeroMatrix == [k \in 1..16 |-> Zero]

Camera(proj, view) == [proj |-> proj, view |-> view]

\* The cameras: from the front (the model faces -Z) and from the back in
\* parallel projection, from the front in perspective, and a singular one.
Cameras ==
    << Camera(OrthoProj(16, 16, 50),
              LookAt(I3(0, 16, -50), I3(0, 16, 0), I3(0, 1, 0))),
       Camera(OrthoProj(9, 9, 50),
              LookAt(I3(0, 28, 50), I3(0, 28, 0), I3(0, 1, 0))),
       Camera(Perspective(90, One, One, Num(3)),
              LookAt(I3(0, 16, -40), I3(0, 16, 0), I3(0, 1, 0))),
       Camera(ZeroMatrix, identity) >>

----------------------------------------------------------------------------
(* The state machine.                                                      *)

----------------------------------------------------------------------------
(* renderer.py: the camera of the Renderer.  A renderer is the record of   *)
(* the fields the camera methods read and write; raised says whether the   *)
(* last call on it ended in an exception.  The angles are degrees.  A      *)
(* matrix whose entries lie outside the model's numbers (the tangent of    *)
(* 22.5 degrees, the sine of 89 degrees) is Inexact: whether the call that *)
(* builds it raises is computed all the same.                              *)

\* Python's max(a, b) and min(a, b): the first argument unless the second is
\* strictly beyond it.
MaxOf(a, b) == IF Gt(b, a) THEN b ELSE a
MinOf(a, b) == IF Lt(b, a) THEN b ELSE a

\* Renderer.__init__.
NewRenderer ==
    [ width |-> Num(600), height |-> Num(700),
      cam_yaw |-> Num(205), cam_pitch |-> Num(15), cam_distance |-> Num(45),
      cam_target |-> I3(0, 16, 0),
      proj_matrix |-> identity, view_matrix |-> identity,
      raised |-> FALSE ]

\* self.renderer = None.
NoRenderer == [none |-> TRUE]

\* An angle whose sine and cosine the model has: a whole multiple of 30.
ExactAngle(a) == a[2] = 0 /\ a[3] = 1 /\ a[1] % 30 = 0

\* The field of view whose half tangent the model has.
ExactFov(fov_deg) == fov_deg \in {60, 90, 120}

\* perspective with its failures: "f / aspect" and the divisions by nf are
\* float divisions, and Python raises ZeroDivisionError on a division by 0.0.
PerspectiveOrRaise(fov_deg, aspect, near, far) ==
    IF aspect = Zero \/ Sub(near, far) = Zero THEN LookAtOutcome(TRUE, None)
    ELSE IF ExactFov(fov_deg)
    THEN LookAtOutcome(FALSE, Perspective(fov_deg, aspect, near, far))
    ELSE LookAtOutcome(FALSE, Inexact)

\* eye_x, eye_y, eye_z of _update_matrices, for whole angles.
EyeOf(target, distance, pitch, yaw) ==
    << Add(target[1], Mul(Mul(distance, CosDeg(pitch)), SinDeg(yaw))),
       Add(target[2], Mul(distance, SinDeg(pitch))),
       Add(target[3], Mul(Mul(distance, CosDeg(pitch)), CosDeg(yaw))) >>

\* The angles at which the lengths look_at takes are in the model: whole
\* multiples of 30 with a rational cosine of the pitch.
ExactView(r) ==
    /\ ExactAngle(r.cam_yaw)
    /\ ExactAngle(r.cam_pitch)
    /\ CosDeg(r.cam_pitch[1])[2] = 0

\* The call of look_at in _update_matrices.  Off the exact angles the matrix
\* is Inexact, and the two lengths look_at divides by are the distance and
\* the distance times the cosine of the pitch: the call raises when the
\* distance is 0 or the pitch an odd multiple of 90.
ViewOrRaise(r) ==
    IF ExactView(r)
    THEN LookAtOrRaise(EyeOf(r.cam_target, r.cam_distance, r.cam_pitch[1],
                             r.cam_yaw[1]),
                       r.cam_target, I3(0, 1, 0))
    ELSE IF \/ r.cam_distance = Zero
            \/ ExactAngle(r.cam_pitch) /\ CosDeg(r.cam_pitch[1]) = Zero
    THEN LookAtOutcome(TRUE, None)
    ELSE LookAtOutcome(FALSE, Inexact)

\* Renderer._update_matrices: proj_matrix is assigned before look_at is
\* called, so a raise of look_at leaves the new projection with the old view.
UpdateMatrices(r) ==
    LET WithView(r1, view) ==
            IF view.raised THEN [r1 EXCEPT !.raised = TRUE]
            ELSE [r1 EXCEPT !.view_matrix = view.result, !.raised = FALSE]
        WithProj(proj) ==
            IF proj.raised THEN [r EXCEPT !.raised = TRUE]
            ELSE WithView([r EXCEPT !.proj_matrix = proj.result],
                          ViewOrRaise(r))
        WithAspect(aspect) ==
            WithProj(PerspectiveOrRaise(45, aspect, Rat(1, 10), Num(500)))
    IN  WithAspect(Div(r.width, MaxOf(r.height, One)))

\* Renderer.resize.
Resize(r, width, height) ==
    UpdateMatrices([r EXCEPT !.width = MaxOf(width, One),
                             !.height = MaxOf(height, One)])

\* camera_rotate without the clamp of the pitch.
CameraRotateUnclamped(r, dx, dy) ==
    [r EXCEPT !.cam_yaw = Add(r.cam_yaw, Mul(dx, Half)),
              !.cam_pitch = Add(r.cam_pitch, Mul(dy, Half)),
              !.raised = FALSE]

\* Renderer.camera_rotate.
CameraRotate(r, dx, dy) ==
    [r EXCEPT !.cam_yaw = Add(r.cam_yaw, Mul(dx, Half)),
              !.cam_pitch = MaxOf(Num(-89),
                                  MinOf(Num(89),
                                        Add(r.cam_pitch, Mul(dy, Half)))),
              !.raised = FALSE]

\* Renderer.camera_zoom.
CameraZoom(r, delta) ==
    [r EXCEPT !.cam_distance = MaxOf(Num(10),
                                     MinOf(Num(120),
                                           Add(r.cam_distance,
                                               Mul(delta, Two)))),
              !.raised = FALSE]

\* Renderer.reset_camera.
ResetCamera(r) ==
    [r EXCEPT !.cam_yaw = Num(205), !.cam_pitch = Num(15),
              !.cam_distance = Num(45), !.cam_target = I3(0, 16, 0),
              !.raised = FALSE]

\* Renderer.render, as far as the camera goes: it recomputes the matrices.
Render(r) == UpdateMatrices(r)

----------------------------------------------------------------------------
(* minecraft-skin-3d.py: the mouse state of the window.  hit is the value  *)
(* of ray_caster.pick in the handler (None or a texel), fuzzy whether       *)
(* _forward_click started a fuzzy-select drag; effect names the branch the *)
(* last handler took.                                                      *)

\* MinecraftSkin3DWindow.__init__.
NewWindow ==
    [ drag_active |-> FALSE, drag_button |-> 0, last_drag_pixel |-> None,
      fuzzy_drag |-> FALSE, drag_start_mx |-> 0,
      rotate_active |-> FALSE, last_mouse_x |-> 0, last_mouse_y |-> 0,
      hover_pixel |-> None, effect |-> "none" ]

NoPick == [status |-> "idle"]
NoPose == <<>>
NoCall == [fn |-> "none"]

Init ==
    /\ variant \in Variants
    /\ base_parts = ModelBaseParts(variant)
    /\ overlay_parts = ModelOverlayParts(variant)
    /\ pose_pc = "idle"
    /\ pose_arg = NoPose
    /\ pose_i = 0
    /\ pick = NoPick
    /\ serialized = TRUE
    /\ call = NoCall
    /\ window = NewWindow
    /\ held = {}
    /\ renderer = NoRenderer

\* A get_transformed_quads that left the part it read in its rest rotation.
PartAfterQuadsReset(part) == ResetRotation(part)

\* What get_transformed_quads leaves of the part it is given: it assigns no
\* attribute of it.
PartAfterQuads(part) == part

\* The parts of a sequence after pick has iterated them, when it does.
PartsAfterPick(parts, iterated) ==
    IF iterated THEN [i \in 1..Len(parts) |-> PartAfterQuads(parts[i])]
    ELSE parts

\* The model's two lists hold the parts of the sequence parts, base first.
StoreParts(parts) ==
    /\ base_parts' = SubSeq(parts, 1, Len(base_parts))
    /\ overlay_parts' = SubSeq(parts, Len(base_parts) + 1, Len(parts))

\* model.set_pose(p), from call to return.
SetPose(p) ==
    /\ pose_pc = "idle"
    /\ pick.status = "idle"
    /\ StoreParts(ApplyPose(GetAllParts(base_parts, overlay_parts), p))
    /\ pose_pc' = "done"
    /\ pose_arg' = <<p>>
    /\ UNCHANGED <<variant, pose_i, pick, serialized, call, window,
                   held, renderer>>

\* caster.pick(mx, my, w, h, proj, view, model, overlay_visible) at grid
\* position (i, j) under camera c, from call to return.
Pick(i, j, c, ov) ==
    LET WithOut(out) ==
            /\ out.status # "inexact"
            /\ pick' = [status |-> "done",
                        args |-> [i |-> i, j |-> j, camera |-> c,
                                  overlay_visible |-> ov],
                        out |-> out]
            /\ base_parts' = PartsAfterPick(base_parts, out.tested # <<>>)
            /\ overlay_parts' = PartsAfterPick(overlay_parts,
                                               out.tested # <<>> /\ ov)
    IN  /\ pose_pc = "idle"
        /\ pick.status = "idle"
        /\ WithOut(PickCall(CursorX(i), CursorY(j), Num(ViewportW),
                            Num(ViewportH), Cameras[c].proj, Cameras[c].view,
                            base_parts, overlay_parts, ov))
        /\ UNCHANGED <<variant, pose_pc, pose_arg, pose_i, serialized, call, window,
                   held, renderer>>

\* The host takes the value of the finished call.
Return ==
    /\ pose_pc = "done" \/ pick.status = "done"
    /\ pose_pc' = "idle"
    /\ pose_arg' = NoPose
    /\ pick' = NoPick
    /\ UNCHANGED <<variant, base_parts, overlay_parts, pose_i, serialized, call, window,
                   held, renderer>>

Next ==
    \/ \E p \in PoseIndices : SetPose(p)
    \/ \E i \in 0..GridN, j \in 0..GridN, c \in 1..Len(Cameras),
          ov \in BOOLEAN : Pick(i, j, c, ov)
    \/ Return

Spec == Init /\ [][Next]_vars

----------------------------------------------------------------------------
(* The state machine with set_pose taken one assignment at a time, and a   *)
(* second thread that picks.  serialized says whether the host excludes    *)
(* the picking thread while set_pose runs.  pose_pc is the loop set_pose   *)
(* is in, pose_i the index of the part its next assignment writes, and     *)
(* pose_arg the argument of the running call or, between calls, of the     *)
(* last one that returned.  A pick is one step: it reads the rotations     *)
(* as they are at one point of the writer's loops.                         *)

InitConc ==
    /\ variant \in Variants
    /\ base_parts = ModelBaseParts(variant)
    /\ overlay_parts = ModelOverlayParts(variant)
    /\ pose_pc = "idle"
    /\ pose_arg = NoPose
    /\ pose_i = 0
    /\ pick = NoPick
    /\ serialized \in BOOLEAN
    /\ call = NoCall
    /\ window = NewWindow
    /\ held = {}
    /\ renderer = NoRenderer

\* set_pose(p) is called: _apply_pose enters its first loop.
BeginSetPose(p) ==
    /\ pose_pc = "idle"
    /\ pick.status = "idle"
    /\ pose_pc' = "reset"
    /\ pose_arg' = <<p>>
    /\ pose_i' = 1
    /\ UNCHANGED <<variant, base_parts, overlay_parts, pick, serialized, call, window,
                   held, renderer>>

\* The loop that follows the one in hand: the pose loop of pose 1 or 2 after
\* the reset loop, and the return after either.
NextLoop(pc, pose_index) ==
    IF pc = "reset" /\ pose_index \in {1, 2} THEN "apply" ELSE "done"

\* The writer's position after the assignment to part pose_i.
Advance ==
    IF pose_i < Len(base_parts) + Len(overlay_parts)
    THEN pose_pc' = pose_pc /\ pose_i' = pose_i + 1
    ELSE pose_pc' = NextLoop(pose_pc, pose_arg[1]) /\ pose_i' = 1

\* One iteration of the first loop: part.rotation = (0, 0, 0).
ResetStep ==
    /\ pose_pc = "reset"
    /\ pick.status = "idle"
    /\ StoreParts([GetAllParts(base_parts, overlay_parts)
                      EXCEPT ![pose_i] = ResetRotation(@)])
    /\ Advance
    /\ UNCHANGED <<variant, pose_arg, pick, serialized, call, window,
                   held, renderer>>

\* One iteration of the loop of pose 1 or pose 2.
ApplyStep ==
    /\ pose_pc = "apply"
    /\ pick.status = "idle"
    /\ StoreParts([GetAllParts(base_parts, overlay_parts)
                      EXCEPT ![pose_i] = PosePart(pose_arg[1], @)])
    /\ Advance
    /\ UNCHANGED <<variant, pose_arg, pick, serialized, call, window,
                   held, renderer>>

\* set_pose returns.
EndSetPose ==
    /\ pose_pc = "done"
    /\ pick.status = "idle"
    /\ pose_pc' = "idle"
    /\ pose_i' = 0
    /\ UNCHANGED <<variant, base_parts, overlay_parts, pose_arg, pick,
                   serialized, call, window,
                   held, renderer>>

\* The cursor positions of the picking thread: the centre of the grid.
ConcGrid == {GridN \div 2}

\* caster.pick from the picking thread, under the front camera and with the
\* overlay visible.  Under a serializing host it runs between the calls of
\* set_pose only.
PickConc(i, j) ==
    /\ pick.status = "idle"
    /\ serialized => pose_pc = "idle"
    /\ pick' = [status |-> "done",
                args |-> [i |-> i, j |-> j, camera |-> 1,
                          overlay_visible |-> TRUE],
                out |-> PickCall(CursorX(i), CursorY(j), Num(ViewportW),
                                 Num(ViewportH), Cameras[1].proj,
                                 Cameras[1].view, base_parts, overlay_parts,
                                 TRUE)]
    /\ UNCHANGED <<variant, base_parts, overlay_parts, pose_pc, pose_arg,
                   pose_i, serialized, call, window,
                   held, renderer>>

\* The picking thread takes the value of its call.
ReturnPick ==
    /\ pick.status = "done"
    /\ pick' = NoPick
    /\ UNCHANGED <<variant, base_parts, overlay_parts, pose_pc, pose_arg,
                   pose_i, serialized, call, window,
                   held, renderer>>

NextConc ==
    \/ \E p \in PoseIndices : BeginSetPose(p)
    \/ ResetStep
    \/ ApplyStep
    \/ EndSetPose
    \/ \E i \in ConcGrid, j \in ConcGrid : PickConc(i, j)
    \/ ReturnPick

SpecConc == InitConc /\ [][NextConc]_vars

----------------------------------------------------------------------------
(* The functions of the core called one at a time, as the unit tests call  *)
(* them, on arguments drawn from bounded sets.  call holds the function,   *)
(* its arguments and what it returned, until the caller takes the value.   *)

MaxBoxSize == 3
BoxCoords == {Num(-4), Half}
BoxSizes == {Num(k) : k \in 1..MaxBoxSize}
UvOrigins == {I2(0, 0), I2(40, 16)}
Inflates == {Zero, Half}

\* BoxPart("box", origin, size, uv_origin, inflate).get_face_quads()
CallFaceQuads(origin, size, uv_origin, inflate) ==
    /\ call.fn = "none"
    /\ call' = [ fn     |-> "get_face_quads",
                 args   |-> [origin |-> origin, size |-> size,
                             uv_origin |-> uv_origin, inflate |-> inflate],
                 part   |-> BoxPart("box", origin, size, uv_origin, inflate,
                                    None),
                 result |-> GetFaceQuads(BoxPart("box", origin, size,
                                                 uv_origin, inflate, None)) ]
    /\ UNCHANGED <<variant, base_parts, overlay_parts, pose_pc, pose_arg,
                   pose_i, pick, serialized, window,
                       held, renderer>>

\* The box dimensions _box_uvs is called with: the sampled edge lengths and
\* those of the arms of the two variants.
ArmDims == {3, 4, 12}
UvDims == (1..MaxBoxSize) \cup ArmDims
UvCorners == {<<0, 0>>, <<40, 16>>}

\* _box_uvs(u0, v0, w, h, d) with the atlas size left at its default.
CallBoxUvs(u0, v0, w, h, d) ==
    /\ call.fn = "none"
    /\ call' = [ fn     |-> "_box_uvs",
                 args   |-> [u0 |-> u0, v0 |-> v0, w |-> w, h |-> h, d |-> d],
                 result |-> BoxUvs(Num(u0), Num(v0), Num(w), Num(h), Num(d),
                                   Num(TEX_W), Num(TEX_H)) ]
    /\ UNCHANGED <<variant, base_parts, overlay_parts, pose_pc, pose_arg,
                   pose_i, pick, serialized, window,
                       held, renderer>>

\* Matrices that exchange two coordinates: invertible, their own inverses.
SwapXW ==
    << Zero, Zero, Zero, One,
       Zero, One, Zero, Zero,
       Zero, Zero, One, Zero,
       One, Zero, Zero, Zero >>
SwapZW ==
    << One, Zero, Zero, Zero,
       Zero, One, Zero, Zero,
       Zero, Zero, Zero, One,
       Zero, Zero, One, Zero >>

\* The cameras _unproject is called with: those of the picks, the identity
\* camera, one whose projection sends the clip points of the middle column of
\* the screen to w = 0, one whose view sends every near and far point to the
\* same place, and one with a singular view.
UnprojectCameras ==
    Cameras \o << Camera(identity, identity),
                  Camera(SwapXW, identity),
                  Camera(identity, SwapZW),
                  Camera(identity, ZeroMatrix) >>

\* The viewport sizes of the calls: the size of the tests, and an empty
\* widget.
ViewportWidths == {0, ViewportW}
ViewportHeights == {0, ViewportH}

\* _unproject(mx, my, viewport_w, viewport_h, proj, view) at grid position
\* (i, j) under camera c.
CallUnproject(i, j, viewport_w, viewport_h, c) ==
    LET WithRay(ray) ==
            /\ ray.status # "inexact"
            /\ call' = [ fn     |-> "_unproject",
                         args   |-> [i |-> i, j |-> j,
                                     viewport_w |-> viewport_w,
                                     viewport_h |-> viewport_h,
                                     camera |-> c],
                         raised |-> ray.status = "raised",
                         result |-> ray ]
    IN  /\ call.fn = "none"
        /\ WithRay(Unproject(CursorX(i), CursorY(j), Num(viewport_w),
                             Num(viewport_h), UnprojectCameras[c].proj,
                             UnprojectCameras[c].view))
        /\ UNCHANGED <<variant, base_parts, overlay_parts, pose_pc, pose_arg,
                       pose_i, pick, serialized, window,
                       held, renderer>>

\* A camera that looks along +z from just in front of the sleeve of the right
\* arm: its view is a translation, and the ray of the centre of the screen
\* starts at (-6, 16, -2.5 - SleeveGap), nearer to the sleeve's front face
\* than the EPSILON = 1e-7 of _ray_triangle_intersect.
SleeveGap == Rat(1, 12779520)
SleeveCamera ==
    Camera(identity,
           << One, Zero, Zero, Zero,
              Zero, One, Zero, Zero,
              Zero, Zero, One, Zero,
              Num(6), Num(-16), Add(Rat(3, 2), SleeveGap), One >>)

\* The cursor positions and cameras of the picks called with a viewport
\* size: the corner and the centre of the screen, the front camera, the
\* singular one and the one in front of the sleeve.
PickCursors == {0, GridN \div 2}
PickCallCameras == Cameras \o <<SleeveCamera>>
PickCameras == {1, 4, 5}

\* caster.pick(mx, my, viewport_w, viewport_h, proj, view, model, True) on
\* the model as built.
CallPick(i, j, viewport_w, viewport_h, c) ==
    LET WithOut(out) ==
            /\ out.status # "inexact"
            /\ call' = [ fn     |-> "pick",
                         args   |-> [i |-> i, j |-> j,
                                     viewport_w |-> viewport_w,
                                     viewport_h |-> viewport_h,
                                     camera |-> c],
                         raised |-> out.status = "raised",
                         out    |-> out,
                         result |-> out.result ]
    IN  /\ call.fn = "none"
        /\ WithOut(PickCall(CursorX(i), CursorY(j), Num(viewport_w),
                            Num(viewport_h), PickCallCameras[c].proj,
                            PickCallCameras[c].view,
                            base_parts, overlay_parts, TRUE))
        /\ UNCHANGED <<variant, base_parts, overlay_parts, pose_pc, pose_arg,
                       pose_i, pick, serialized, window,
                       held, renderer>>

\* The matrices mat4_inverse is called with: the projections and views of the
\* cameras, the scaled translation of the tests, a matrix with no zero
\* pattern, and a singular one with two equal columns.
ScaledTranslation ==
    << Two, Zero, Zero, Zero,
       Zero, Half, Zero, Zero,
       Zero, Zero, Num(3), Zero,
       Num(5), Num(-3), Num(7), One >>
DenseMatrix ==
    << Num(2), Num(1), Zero, Num(3),
       Zero, Num(1), Num(4), Num(1),
       Num(1), Half, Num(2), Zero,
       Num(3), Num(2), Num(1), Num(-1) >>
EqualColumns ==
    << Num(1), Num(2), Num(3), Num(4),
       Num(1), Num(2), Num(3), Num(4),
       Zero, Zero, One, Zero,
       Zero, Zero, Zero, One >>
InverseMatrices ==
    [k \in 1..Len(UnprojectCameras) |-> UnprojectCameras[k].proj]
    \o [k \in 1..Len(UnprojectCameras) |-> UnprojectCameras[k].view]
    \o <<ScaledTranslation, DenseMatrix, EqualColumns>>

\* mat4_inverse(m) on the k-th of these matrices.
CallInverse(k) ==
    /\ call.fn = "none"
    /\ call' = [ fn     |-> "mat4_inverse",
                 args   |-> [m |-> InverseMatrices[k]],
                 raised |-> FALSE,
                 result |-> Mat4Inverse(InverseMatrices[k]) ]
    /\ UNCHANGED <<variant, base_parts, overlay_parts, pose_pc, pose_arg,
                   pose_i, pick, serialized, window,
                       held, renderer>>

\* The calls of _rotate_point: the points, pivots and angles of the tests of
\* the function and of the poses, every combination of angles on the three
\* axes.
RotationAngles == {0, 30, 90, 180, 360, -90}
RotationPoints == {I3(1, 0, 0), I3(1, 2, 3), I3(3, 5, 7)}
RotationPivots == {I3(0, 0, 0), I3(1, 2, 3)}

\* _rotate_point(px, py, pz, pivot, rotation_deg).
CallRotatePoint(p, pivot, rotation_deg) ==
    /\ call.fn = "none"
    /\ call' = [ fn     |-> "_rotate_point",
                 args   |-> [p |-> p, pivot |-> pivot, rotation_deg |-> rotation_deg],
                 raised |-> FALSE,
                 result |-> RotatePoint(p[1], p[2], p[3], pivot, rotation_deg) ]
    /\ UNCHANGED <<variant, base_parts, overlay_parts, pose_pc, pose_arg,
                   pose_i, pick, serialized, window,
                       held, renderer>>

\* The calls of look_at: eye and centre apart along an axis or along
\* (3, 0, 4), or in the same place, and up vectors across and along the
\* view directions.
LookAtViews ==
    { <<I3(0, 0, 5), I3(0, 0, 0)>>, <<I3(3, 0, 4), I3(0, 0, 0)>>,
      <<I3(0, 16, -50), I3(0, 16, 0)>>, <<I3(1, 2, 3), I3(1, 2, 3)>>,
      <<I3(0, 0, 0), I3(0, 0, 0)>> }
LookAtUps == {I3(0, 1, 0), I3(0, 0, 1), I3(0, 0, -2), I3(1, 0, 0)}

\* look_at(eye, center, up).
CallLookAt(eye, center, up) ==
    /\ call.fn = "none"
    /\ call' = [ fn     |-> "look_at",
                 args   |-> [eye |-> eye, center |-> center, up |-> up],
                 raised |-> LookAtOrRaise(eye, center, up).raised,
                 result |-> LookAtOrRaise(eye, center, up).result ]
    /\ UNCHANGED <<variant, base_parts, overlay_parts, pose_pc, pose_arg,
                   pose_i, pick, serialized, window,
                       held, renderer>>

\* The rays of the calls of _ray_triangle_intersect and _ray_quad_intersect:
\* origins on a half-unit grid at three depths, and directions towards the
\* plane z = 0, away from it, along it and oblique to it; and two origins
\* facing the plane from the threshold 1e-7 and from half of it.
MaxRayCoord == 4
RayCoords == {Rat(k, 2) : k \in (-1)..MaxRayCoord}
RayDepths == {Num(-1), Zero, One}
RayOrigins == RayCoords \X RayCoords \X RayDepths
RayDirections == {I3(0, 0, 1), I3(0, 0, -1), I3(1, 0, 0), I3(0, 1, 2)}
ThresholdOrigins ==
    { <<Half, Half, Rat(-1, 10^EPSILON_EXP)>>,
      <<Half, Half, Rat(-1, 2 * 10^EPSILON_EXP)>> }

\* The triangles: one in the plane z = 0, one tilted out of it.
FlatTriangle == <<I3(0, 0, 0), I3(2, 0, 0), I3(0, 2, 0)>>
Triangles == {FlatTriangle, <<I3(0, 0, 0), I3(2, 0, 1), I3(0, 2, 1)>>}

\* The texture coordinates at the three or four vertices: those that make
\* the interpolated texture coordinates the barycentric (u, v), and a
\* rectangle of the atlas.
BarycentricUvs == <<I2(0, 0), I2(1, 0), I2(0, 1), I2(1, 1)>>
AtlasUvs ==
    << <<Rat(1, 4), Rat(1, 2)>>, <<Rat(3, 4), Rat(1, 2)>>,
       <<Rat(3, 4), One>>, <<Rat(1, 4), One>> >>
UvSets == {BarycentricUvs, AtlasUvs}

\* _ray_triangle_intersect(origin, direction, v0, v1, v2, uv0, uv1, uv2)
CallRayTriangle(origin, direction, tri, uvs) ==
    /\ call.fn = "none"
    /\ call' = [ fn     |-> "_ray_triangle_intersect",
                 args   |-> [origin |-> origin, direction |-> direction,
                             verts |-> tri,
                             uvs |-> <<uvs[1], uvs[2], uvs[3]>>],
                 result |-> RayTriangleIntersect(origin, direction,
                                                 tri[1], tri[2], tri[3],
                                                 uvs[1], uvs[2], uvs[3]) ]
    /\ UNCHANGED <<variant, base_parts, overlay_parts, pose_pc, pose_arg,
                   pose_i, pick, serialized, window,
                       held, renderer>>

\* The quads: a square in the plane z = 0, a convex quad of that plane that is
\* no parallelogram, a tilted rectangle, and a quad folded along its diagonal,
\* whose second triangle hangs over the first.
Quads ==
    { <<I3(0, 0, 0), I3(2, 0, 0), I3(2, 2, 0), I3(0, 2, 0)>>,
      <<I3(0, 0, 0), I3(2, 0, 0), I3(2, 1, 0), I3(0, 2, 0)>>,
      <<I3(0, 0, 0), I3(2, 0, 1), I3(2, 2, 1), I3(0, 2, 0)>>,
      <<I3(0, 0, 0), I3(2, 0, 0), I3(0, 2, 0), I3(2, 0, 1)>> }

\* _ray_quad_intersect(origin, direction, verts, uvs)
CallRayQuad(origin, direction, verts, uvs) ==
    /\ call.fn = "none"
    /\ call' = [ fn     |-> "_ray_quad_intersect",
                 args   |-> [origin |-> origin, direction |-> direction,
                             verts |-> verts, uvs |-> uvs],
                 result |-> RayQuadIntersect(origin, direction, verts, uvs) ]
    /\ UNCHANGED <<variant, base_parts, overlay_parts, pose_pc, pose_arg,
                   pose_i, pick, serialized, window,
                       held, renderer>>

\* The caller takes the value of the finished call.
ReturnCall ==
    /\ call.fn # "none"
    /\ call' = NoCall
    /\ UNCHANGED <<variant, base_parts, overlay_parts, pose_pc, pose_arg,
                   pose_i, pick, serialized, window,
                       held, renderer>>

NextCalls ==
    \/ \E origin \in BoxCoords \X BoxCoords \X BoxCoords,
          size \in BoxSizes \X BoxSizes \X BoxSizes,
          uv_origin \in UvOrigins, inflate \in Inflates :
            CallFaceQuads(origin, size, uv_origin, inflate)
    \/ \E uv \in UvCorners, w \in UvDims, h \in UvDims, d \in UvDims :
            CallBoxUvs(uv[1], uv[2], w, h, d)
    \/ \E i \in 0..GridN, j \in 0..GridN, viewport_w \in ViewportWidths,
          viewport_h \in ViewportHeights, c \in 1..Len(UnprojectCameras) :
            CallUnproject(i, j, viewport_w, viewport_h, c)
    \/ \E i \in PickCursors, j \in PickCursors, viewport_w \in ViewportWidths,
          viewport_h \in ViewportHeights, c \in PickCameras :
            CallPick(i, j, viewport_w, viewport_h, c)
    \/ \E k \in 1..Len(InverseMatrices) : CallInverse(k)
    \/ \E origin \in RayOrigins, direction \in RayDirections,
          tri \in Triangles, uvs \in UvSets :
            CallRayTriangle(origin, direction, tri, uvs)
    \/ \E origin \in ThresholdOrigins, uvs \in UvSets :
            CallRayTriangle(origin, I3(0, 0, 1), FlatTriangle, uvs)
    \/ \E origin \in RayOrigins, direction \in RayDirections,
          verts \in Quads, uvs \in UvSets :
            CallRayQuad(origin, direction, verts, uvs)
    \/ \E p \in RotationPoints, pivot \in RotationPivots,
          rotation_deg \in RotationAngles \X RotationAngles \X RotationAngles :
            CallRotatePoint(p, pivot, rotation_deg)
    \/ \E view \in LookAtViews, up \in LookAtUps :
            CallLookAt(view[1], view[2], up)
    \/ ReturnCall

SpecCalls == Init /\ [][NextCalls]_vars
----------------------------------------------------------------------------
(* The camera calls on a Renderer, in any order.                           *)

\* The fields of the skin model and of the picker, which the camera and the
\* mouse handlers leave alone.
skin == <<variant, base_parts, overlay_parts, pose_pc, pose_arg, pose_i,
          pick, serialized, call>>

\* The yaw is unbounded in the source; the calls taken keep it within
\* MaxYawTurn degrees of the reset value.
MaxYawTurn == 5
YawInRange(r) ==
    /\ Le(Sub(r.cam_yaw, Num(205)), Num(MaxYawTurn))
    /\ Le(Sub(Num(205), r.cam_yaw), Num(MaxYawTurn))

\* The arguments of the calls: mouse movements in pixels, scroll deltas, and
\* the sizes GTK reports, 0 included.
RotateDxs == {-10, 10}
RotateDys == {-150, 150}
ZoomDeltas == {-20, 20}
Widths == {0, 600}
Heights == {0, 700}

InitRenderer ==
    /\ variant = "classic"
    /\ base_parts = ModelBaseParts(variant)
    /\ overlay_parts = ModelOverlayParts(variant)
    /\ pose_pc = "idle"
    /\ pose_arg = NoPose
    /\ pose_i = 0
    /\ pick = NoPick
    /\ serialized = TRUE
    /\ call = NoCall
    /\ window = NewWindow
    /\ held = {}
    /\ renderer = NewRenderer

\* renderer.camera_rotate(dx, dy).
RendererRotate(dx, dy) ==
    /\ YawInRange(CameraRotate(renderer, Num(dx), Num(dy)))
    /\ renderer' = CameraRotate(renderer, Num(dx), Num(dy))
    /\ UNCHANGED <<skin, window, held>>

\* renderer.camera_zoom(delta).
RendererZoom(delta) ==
    /\ renderer' = CameraZoom(renderer, Num(delta))
    /\ UNCHANGED <<skin, window, held>>

\* renderer.reset_camera().
RendererReset ==
    /\ renderer' = ResetCamera(renderer)
    /\ UNCHANGED <<skin, window, held>>

\* renderer.resize(width, height).
RendererResize(width, height) ==
    /\ renderer' = Resize(renderer, Num(width), Num(height))
    /\ UNCHANGED <<skin, window, held>>

\* renderer.render(...).
RendererRender ==
    /\ renderer' = Render(renderer)
    /\ UNCHANGED <<skin, window, held>>

NextRenderer ==
    \/ \E dx \in RotateDxs, dy \in RotateDys : RendererRotate(dx, dy)
    \/ \E delta \in ZoomDeltas : RendererZoom(delta)
    \/ RendererReset
    \/ \E width \in Widths, height \in Heights : RendererResize(width, height)
    \/ RendererRender

SpecRenderer == InitRenderer /\ [][NextRenderer]_vars

----------------------------------------------------------------------------
(* The mouse handlers of the window.  held is the set of mouse buttons     *)
(* that are down: GDK delivers a press of a button that is up and a        *)
(* release of a button that is down.                                       *)

Buttons == {1, 2, 3}
MousePositions == {<<0, 0>>, <<10, 150>>}
Hits == {None, <<12, 16>>}

\* _handle_paint(mx, my, start): the pick and, on a hit, _forward_click.
HandlePaint(w, r, hit, start, fuzzy) ==
    IF r = NoRenderer THEN [w EXCEPT !.effect = "none"]
    ELSE IF hit = None THEN [w EXCEPT !.effect = "none"]
    ELSE IF w.last_drag_pixel = hit /\ ~start THEN [w EXCEPT !.effect = "none"]
    ELSE [w EXCEPT !.last_drag_pixel = hit,
                   !.fuzzy_drag = fuzzy \/ w.fuzzy_drag,
                   !.effect = "paint"]

\* _handle_hover(mx, my).
HandleHover(w, r, hit) ==
    IF r = NoRenderer THEN [w EXCEPT !.effect = "none"]
    ELSE [w EXCEPT !.hover_pixel = hit, !.effect = "hover"]

\* _on_realize, when the GL context has no error: the renderer is created
\* and init_gl computes its matrices.
OnRealize ==
    /\ renderer = NoRenderer
    /\ renderer' = UpdateMatrices(NewRenderer)
    /\ UNCHANGED <<skin, window, held>>

\* _on_button_press.
OnButtonPress(button, x, y, hit, fuzzy) ==
    /\ button \notin held
    /\ held' = held \cup {button}
    /\ window' =
         IF button = 2 \/ button = 3
         THEN [window EXCEPT !.rotate_active = TRUE,
                             !.last_mouse_x = x, !.last_mouse_y = y,
                             !.effect = "none"]
         ELSE IF button = 1
         THEN HandlePaint([window EXCEPT !.drag_active = TRUE,
                                         !.drag_button = 1,
                                         !.last_drag_pixel = None,
                                         !.drag_start_mx = x,
                                         !.fuzzy_drag = FALSE],
                          renderer, hit, TRUE, fuzzy)
         ELSE window
    /\ UNCHANGED <<skin, renderer>>

\* The window after _on_button_release.
Released(w, button) ==
    IF button \in {2, 3} \/ w.rotate_active
    THEN [w EXCEPT !.rotate_active = FALSE, !.effect = "none"]
    ELSE IF button = 1
    THEN [w EXCEPT !.drag_active = FALSE, !.last_drag_pixel = None,
                   !.fuzzy_drag = FALSE, !.effect = "none"]
    ELSE w

\* _on_button_release.
OnButtonRelease(button) ==
    /\ button \in held
    /\ held' = held \ {button}
    /\ window' = Released(window, button)
    /\ UNCHANGED <<skin, renderer>>

\* _on_motion.
OnMotion(x, y, hit) ==
    /\ IF window.rotate_active
       THEN /\ window' = [window EXCEPT !.last_mouse_x = x,
                                        !.last_mouse_y = y,
                                        !.effect = "rotate"]
            /\ IF renderer = NoRenderer THEN renderer' = renderer
               ELSE /\ YawInRange(CameraRotate(renderer,
                                               Num(x - window.last_mouse_x),
                                               Num(y - window.last_mouse_y)))
                    /\ renderer' = CameraRotate(renderer,
                                                Num(x - window.last_mouse_x),
                                                Num(y - window.last_mouse_y))
       ELSE IF window.drag_active
       THEN /\ window' = IF window.fuzzy_drag
                         THEN [window EXCEPT !.effect = "fuzzy"]
                         ELSE HandlePaint(window, renderer, hit, FALSE, FALSE)
            /\ renderer' = renderer
       ELSE /\ window' = HandleHover(window, renderer, hit)
            /\ renderer' = renderer
    /\ UNCHANGED <<skin, held>>

InitWindow ==
    /\ variant = "classic"
    /\ base_parts = ModelBaseParts(variant)
    /\ overlay_parts = ModelOverlayParts(variant)
    /\ pose_pc = "idle"
    /\ pose_arg = NoPose
    /\ pose_i = 0
    /\ pick = NoPick
    /\ serialized = TRUE
    /\ call = NoCall
    /\ window = NewWindow
    /\ held = {}
    /\ renderer = NoRenderer

NextWindow ==
    \/ OnRealize
    \/ \E button \in Buttons, at \in MousePositions, hit \in Hits,
          fuzzy \in BOOLEAN : OnButtonPress(button, at[1], at[2], hit, fuzzy)
    \/ \E button \in Buttons : OnButtonRelease(button)
    \/ \E at \in MousePositions, hit \in Hits : OnMotion(at[1], at[2], hit)

SpecWindow == InitWindow /\ [][NextWindow]_vars


----------------------------------------------------------------------------
(* Properties of pick.                                                     *)

\* The finished pick of the state, its arguments and its locals.
PickDone == pick.status = "done"
Scanned == PickDone /\ pick.out.status = "ok" /\ pick.out.ray.status = "ok"

\* The part named name, as the model holds it.
PartNamed(name) ==
    CHOOSE part \in {base_parts[k] : k \in 1..Len(base_parts)}
                    \cup {overlay_parts[k] : k \in 1..Len(overlay_parts)} :
        part.name = name

\* The quad of hit h, and what its first triangle alone returns.
QuadOfHit(h) ==
    CHOOSE q \in {GetTransformedQuads(PartNamed(h.part))[k] : k \in 1..6} :
        q.face = h.face
FirstTriangle(ray, q) ==
    RayTriangleIntersect(ray.origin, ray.direction,
                         q.verts[1], q.verts[2], q.verts[3],
                         q.uvs[1], q.uvs[2], q.uvs[3])

\* hit k of the scan is at the same distance as the winner, later in the
\* iteration, and would have given another texel.
LaterTie(scan, k) ==
    /\ k > scan.winner
    /\ scan.hits[k].t = scan.hits[scan.winner].t
    /\ Texel(scan.hits[k].uv) # Texel(scan.hits[scan.winner].uv)

\* The winner of scan: no hit is closer, no earlier hit is as close, its UV
\* is the one converted, and it is its quad's first triangle's hit when that
\* triangle is hit.
WinnerIsFirstClosest(out, scan) ==
    /\ scan.winner \in 1..Len(scan.hits)
    /\ \A k \in 1..Len(scan.hits) :
          /\ ~Lt(scan.hits[k].t, scan.hits[scan.winner].t)
          /\ scan.hits[k].t = scan.hits[scan.winner].t => k >= scan.winner
    /\ scan.best_t = scan.hits[scan.winner].t
    /\ scan.best_uv = scan.hits[scan.winner].uv
    /\ out.result = Texel(scan.hits[scan.winner].uv)

FirstTriangleWins(ray, h, first) ==
    first # None => h.t = first[1] /\ h.uv = <<first[2], first[3]>>

\* C1: pick returns the texel of the closest hit among the quads it tests; of
\* hits at exactly the same distance the first in iteration order (part, then
\* face, then triangle) wins, and a later equal hit never replaces it.
C1_ClosestHitFirstOnTies ==
    (Scanned /\ pick.out.scan.hits # <<>>) =>
        /\ WinnerIsFirstClosest(pick.out, pick.out.scan)
        /\ FirstTriangleWins(pick.out.ray,
                             pick.out.scan.hits[pick.out.scan.winner],
                             FirstTriangle(pick.out.ray,
                                 QuadOfHit(pick.out.scan.hits[pick.out.scan.winner])))

\* A pick whose winner is tied with a later hit that maps to another texel.
C1_TieReached ==
    /\ Scanned
    /\ \E k \in 1..Len(pick.out.scan.hits) : LaterTie(pick.out.scan, k)

\* The names of the parts of a sequence, in order.
Names(parts) == [k \in 1..Len(parts) |-> parts[k].name]

\* The pick of the state, repeated on the model without its overlay parts.
PickWithoutOverlay ==
    PickCall(CursorX(pick.args.i), CursorY(pick.args.j), Num(ViewportW),
             Num(ViewportH), Cameras[pick.args.camera].proj,
             Cameras[pick.args.camera].view, base_parts, <<>>, TRUE)

\* C2: pick tests the base parts followed by the overlay parts, in their
\* order, when overlay_visible is true and the base parts alone when it is
\* false; with overlay_visible false its result is that of the same model
\* without overlay parts.
C2_TestedParts ==
    Scanned =>
        /\ pick.args.overlay_visible =>
              pick.out.tested = Names(base_parts) \o Names(overlay_parts)
        /\ ~pick.args.overlay_visible =>
              /\ pick.out.tested = Names(base_parts)
              /\ pick.out.result = PickWithoutOverlay.result

\* A pick with the overlay hidden whose result the overlay would have changed.
C2_HiddenOverlayIgnored ==
    /\ Scanned
    /\ ~pick.args.overlay_visible
    /\ pick.out.result # None
    /\ pick.out.result #
          PickCall(CursorX(pick.args.i), CursorY(pick.args.j), Num(ViewportW),
                   Num(ViewportH), Cameras[pick.args.camera].proj,
                   Cameras[pick.args.camera].view, base_parts, overlay_parts,
                   TRUE).result

\* floor(x) for x within 2 * TEX_W of zero, and clamp(n, lo, hi).
FloorOf(x) ==
    CHOOSE n \in (-2 * TEX_W)..(2 * TEX_W) : Le(Num(n), x) /\ Lt(x, Num(n + 1))
Clamp(n, lo, hi) == IF n < lo THEN lo ELSE IF n > hi THEN hi ELSE n

\* The texel the specification gives for the UV pair uv.
FloorTexel(uv) ==
    << Clamp(FloorOf(Mul(uv[1], Num(TEX_W))), 0, TEX_W - 1),
       Clamp(FloorOf(Mul(uv[2], Num(TEX_H))), 0, TEX_H - 1) >>

InAtlas(texel) ==
    /\ 0 <= texel[1] /\ texel[1] < TEX_W
    /\ 0 <= texel[2] /\ texel[2] < TEX_H

\* UV coordinates n / UvDen from -UvMax / UvDen to 1 + UvMax / UvDen: below
\* zero, inside the atlas and beyond one.
UvDen == 96
UvMax == 40
UvSamples == {Rat(n, UvDen) : n \in (-UvMax)..(UvDen + UvMax)}

\* C3: a returned texel is (clamp(floor(u * 64), 0, 63),
\* clamp(floor(v * 64), 0, 63)) of the winning UV and lies in the atlas, and
\* the conversion does so for negative and greater-than-one UVs as well.
C3_TexelClampedFloor ==
    /\ (PickDone /\ pick.out.result # None) =>
          /\ pick.out.result = FloorTexel(pick.out.scan.best_uv)
          /\ InAtlas(pick.out.result)
    /\ pick.status = "idle" =>
          \A u \in UvSamples :
              /\ Texel(<<u, Sub(One, u)>>) = FloorTexel(<<u, Sub(One, u)>>)
              /\ InAtlas(Texel(<<u, Sub(One, u)>>))

\* A returned texel whose UV is on the far edge of the atlas: floor gives 64,
\* the clamp 63.
C3_ClampReached ==
    /\ PickDone
    /\ pick.out.result # None
    /\ \/ FloorOf(Mul(pick.out.scan.best_uv[1], Num(TEX_W))) = TEX_W
       \/ FloorOf(Mul(pick.out.scan.best_uv[2], Num(TEX_H))) = TEX_H

\* C4: pick returns no result exactly when unproject fails or no tested quad
\* is hit: after a failed unproject it has tested nothing; after a successful
\* one it returns a texel pair if a quad was hit and no result if none was.
C4_NoResultExactly ==
    (PickDone /\ pick.out.status = "ok") =>
        /\ pick.out.ray.status = "none" =>
              /\ pick.out.result = None
              /\ pick.out.tested = <<>>
              /\ pick.out.scan.hits = <<>>
        /\ (pick.out.ray.status = "ok" /\ pick.out.scan.hits # <<>>) =>
              /\ pick.out.result # None
              /\ Len(pick.out.result) = 2
        /\ (pick.out.ray.status = "ok" /\ pick.out.scan.hits = <<>>) =>
              pick.out.result = None

\* A pick that ended on a failed unproject.
C4_UnprojectFailed ==
    /\ PickDone
    /\ pick.out.ray.status = "none"
    /\ pick.out.result = None

\* A pick whose ray missed every quad, and one whose ray hit some.
C4_Missed == Scanned /\ pick.out.scan.hits = <<>> /\ pick.out.result = None
C4_Hit == Scanned /\ pick.out.scan.hits # <<>> /\ pick.out.result # None

\* C5: a pick, whatever it returns, leaves every part as it was (rotation,
\* origin, size, pivot, UV rectangles) and both part sequences unchanged, so
\* that the same pick on the state it leaves returns the same result.
C5_PickReadsOnly ==
    [][(pick.status = "idle" /\ pick'.status = "done") =>
          /\ base_parts' = base_parts
          /\ overlay_parts' = overlay_parts]_vars

\* A pick of a posed model that tested its parts and returned a texel.
C5_PosedPickDone ==
    /\ Scanned
    /\ pick.out.result # None
    /\ \E k \in 1..Len(base_parts) : base_parts[k].rotation # <<0, 0, 0>>

----------------------------------------------------------------------------
(* Properties of set_pose.                                                 *)

\* The rotation the specification gives the part named name in pose p.
ExpectedRotation(p, name) ==
    IF p = 1
    THEN IF name \in {"rightArm", "rightSleeve", "leftLeg", "leftPants"}
         THEN <<30, 0, 0>>
         ELSE IF name \in {"leftArm", "leftSleeve", "rightLeg", "rightPants"}
         THEN <<-30, 0, 0>>
         ELSE <<0, 0, 0>>
    ELSE IF p = 2
    THEN IF name \in {"rightArm", "rightSleeve"} THEN <<0, 0, 90>>
         ELSE IF name \in {"leftArm", "leftSleeve"} THEN <<0, 0, -90>>
         ELSE <<0, 0, 0>>
    ELSE <<0, 0, 0>>

\* The pose of the last set_pose that returned: the rest pose before any.
LastPose == IF pose_arg = NoPose THEN 0 ELSE pose_arg[1]

\* The rotations a pick read are those of pose p, for all its parts.
Observes(out, p) ==
    \A k \in 1..Len(out.tested) :
        out.observed[k] = ExpectedRotation(p, out.tested[k])

\* The rotations a pick read are those of no pose index.
Torn(out) == out.tested # <<>> /\ \A p \in PoseIndices : ~Observes(out, p)

\* C6: set_pose resets every part and then assigns the pose rotations part by
\* part.  Under a host that serializes it against pick, every pick reads, for
\* all parts at once, the rotations of the last set_pose that returned; a
\* combination of rotations that no pose index produces is read only by a
\* pick that runs unserialized between the assignments of a running set_pose.
C6_SerializedPicksSeeWholePoses ==
    PickDone =>
        /\ serialized => Observes(pick.out, LastPose)
        /\ Torn(pick.out) => ~serialized /\ pose_pc \in {"reset", "apply"}

\* An unserialized pick that read rotations no pose index gives.
C6_TornObservation == PickDone /\ ~serialized /\ Torn(pick.out)

\* A serialized pick of a posed model.
C6_SerializedPosedPick ==
    PickDone /\ serialized /\ pick.out.tested # <<>> /\ LastPose \in {1, 2}

\* The rotation of the part named name.
RotationOf(name) == PartNamed(name).rotation

\* The names of the parts of both variants.
PartNames ==
    {"head", "body", "rightArm", "leftArm", "rightLeg", "leftLeg", "hat",
     "jacket", "rightSleeve", "leftSleeve", "rightPants", "leftPants"}

\* set_pose(p) has run to its end.
Posed(p) == pose_pc = "done" /\ pose_arg = <<p>>

\* C7: after set_pose(p) with p = 0 or any index other than 1 and 2, whatever
\* poses were set before, every base part and every overlay part has rotation
\* (0, 0, 0).
C7_OtherIndicesResetAll ==
    \A p \in PoseIndices \ {1, 2} :
        Posed(p) =>
            /\ \A k \in 1..Len(base_parts) : base_parts[k].rotation = <<0, 0, 0>>
            /\ \A k \in 1..Len(overlay_parts) :
                  overlay_parts[k].rotation = <<0, 0, 0>>

\* set_pose has returned for an index that names no pose.
C7_UnnamedPoseSet ==
    /\ pose_pc = "done"
    /\ pose_arg[1] \notin {0, 1, 2}
    /\ \A name \in PartNames : RotationOf(name) = <<0, 0, 0>>

\* C8: after set_pose(1), whatever poses were set before and on either
\* variant, rightArm and rightSleeve have rotation (30,0,0), leftArm and
\* leftSleeve (-30,0,0), rightLeg and rightPants (-30,0,0), leftLeg and
\* leftPants (30,0,0), head, body, hat and jacket (0,0,0); the arms' x
\* rotations are opposite and nonzero.
C8_Walking ==
    Posed(1) =>
        /\ RotationOf("rightArm") = <<30, 0, 0>>
        /\ RotationOf("rightSleeve") = <<30, 0, 0>>
        /\ RotationOf("leftArm") = <<-30, 0, 0>>
        /\ RotationOf("leftSleeve") = <<-30, 0, 0>>
        /\ RotationOf("rightLeg") = <<-30, 0, 0>>
        /\ RotationOf("rightPants") = <<-30, 0, 0>>
        /\ RotationOf("leftLeg") = <<30, 0, 0>>
        /\ RotationOf("leftPants") = <<30, 0, 0>>
        /\ \A name \in {"head", "body", "hat", "jacket"} :
              RotationOf(name) = <<0, 0, 0>>
        /\ RotationOf("rightArm")[1] = -RotationOf("leftArm")[1]
        /\ RotationOf("rightArm")[1] # 0
        /\ RotationOf("leftArm")[1] # 0
        /\ Len(base_parts) + Len(overlay_parts) = Cardinality(PartNames)

\* set_pose(1) has returned on the slim variant.
C8_WalkingSet == Posed(1) /\ variant = "slim" /\ RotationOf("leftArm")[1] = -30

\* C9: after set_pose(2), whatever poses were set before and on either
\* variant, rightArm and rightSleeve have rotation (0,0,90), leftArm and
\* leftSleeve (0,0,-90), and the legs, the pants, head, body, hat and jacket
\* (0,0,0).
C9_ArmsOut ==
    Posed(2) =>
        /\ RotationOf("rightArm") = <<0, 0, 90>>
        /\ RotationOf("rightSleeve") = <<0, 0, 90>>
        /\ RotationOf("leftArm") = <<0, 0, -90>>
        /\ RotationOf("leftSleeve") = <<0, 0, -90>>
        /\ \A name \in {"rightLeg", "leftLeg", "rightPants", "leftPants",
                        "head", "body", "hat", "jacket"} :
              RotationOf(name) = <<0, 0, 0>>
        /\ Len(base_parts) + Len(overlay_parts) = Cardinality(PartNames)

\* set_pose(2) has returned on the classic variant.
C9_ArmsOutSet ==
    Posed(2) /\ variant = "classic" /\ RotationOf("rightSleeve") = <<0, 0, 90>>

\* The part is as built but for its rotation.
AsBuilt(part, built) ==
    /\ part.uvs = built.uvs
    /\ part.origin = built.origin
    /\ part.size = built.size
    /\ part.pivot = built.pivot
    /\ part.name = built.name

\* The quads have the same face names in the same order, each with the same
\* four UVs.
SameFacesAndUvs(transformed, quads) ==
    /\ Len(transformed) = 6
    /\ Len(quads) = 6
    /\ \A k \in 1..6 :
          /\ transformed[k].face = quads[k].face
          /\ Len(transformed[k].uvs) = 4
          /\ \A n \in 1..4 : transformed[k].uvs[n] = quads[k].uvs[n]

\* get_transformed_quads against get_face_quads on one part.
TransformKeepsUvs(part, transformed, quads) ==
    /\ SameFacesAndUvs(transformed, quads)
    /\ part.rotation = <<0, 0, 0>> => transformed = quads

PartsAsBuilt(parts, built) ==
    /\ Len(parts) = Len(built)
    /\ \A k \in 1..Len(parts) :
          /\ AsBuilt(parts[k], built[k])
          /\ TransformKeepsUvs(parts[k], GetTransformedQuads(parts[k]),
                               GetFaceQuads(parts[k]))

\* C10: posing changes vertex positions only.  After any sequence of set_pose
\* calls every part has the UV rectangles, origin, size, pivot and name of its
\* construction; get_transformed_quads returns the six face names of
\* get_face_quads in the same order with the same four UVs per face, and the
\* same vertices when the rotation is all-zero.
C10_PosingMovesVerticesOnly ==
    pick.status = "idle" =>
        /\ PartsAsBuilt(base_parts, ModelBaseParts(variant))
        /\ PartsAsBuilt(overlay_parts, ModelOverlayParts(variant))

\* A posed part whose transformed quads have moved vertices.
C10_RotatedQuadsMoved ==
    /\ pose_pc = "done"
    /\ \E k \in 1..Len(base_parts) :
          /\ base_parts[k].rotation # <<0, 0, 0>>
          /\ GetTransformedQuads(base_parts[k])[1].verts #
                GetFaceQuads(base_parts[k])[1].verts
          /\ GetTransformedQuads(base_parts[k])[1].uvs =
                GetFaceQuads(base_parts[k])[1].uvs

----------------------------------------------------------------------------
(* Properties of the functions called one at a time.                       *)

Called(fn) == call.fn = fn

\* The normal (v1 - v0) x (v2 - v0) of a quad's vertex order, and the centre
\* of a part's box.
QuadNormal(q) ==
    Cross3(V3Sub(q.verts[2], q.verts[1]), V3Sub(q.verts[3], q.verts[1]))
BoxCentre(part) ==
    [k \in 1..3 |-> Add(part.origin[k], Div(part.size[k], Two))]

\* The direction a face of the given name looks in, seen from the box centre.
Outward(face) ==
    CASE face = "front"  -> I3(0, 0, -1)
      [] face = "back"   -> I3(0, 0, 1)
      [] face = "right"  -> I3(-1, 0, 0)
      [] face = "left"   -> I3(1, 0, 0)
      [] face = "top"    -> I3(0, 1, 0)
      [] face = "bottom" -> I3(0, -1, 0)

\* The normal n is a positive multiple of the axis direction a.
AlongAxis(n, a) ==
    /\ Gt(Dot3(n, a), Zero)
    /\ \A k \in 1..3 : a[k] = Zero => n[k] = Zero

\* The quad q of part winds counter-clockwise seen from outside: its normal
\* points along its face's outward axis, away from the box centre.
WoundOutward(part, q) ==
    /\ AlongAxis(QuadNormal(q), Outward(q.face))
    /\ Gt(Dot3(QuadNormal(q), V3Sub(q.verts[1], BoxCentre(part))), Zero)
WoundInward(part, q) ==
    /\ AlongAxis(QuadNormal(q), [k \in 1..3 |-> Neg(Outward(q.face)[k])])
    /\ Lt(Dot3(QuadNormal(q), V3Sub(q.verts[1], BoxCentre(part))), Zero)

\* C11: every quad get_face_quads returns for a box of positive size winds
\* counter-clockwise seen from outside the box: the normal (v1 - v0) x
\* (v2 - v0) points away from the box centre, front towards -Z, back +Z,
\* right -X, left +X, top +Y, bottom -Y.
C11_FacesWoundOutward ==
    Called("get_face_quads") =>
        \A k \in 1..Len(call.result) : WoundOutward(call.part, call.result[k])

\* What the source does instead: every one of the six normals points at the
\* box centre.
C11_FacesWoundInward ==
    Called("get_face_quads") =>
        /\ Len(call.result) = 6
        /\ \A k \in 1..6 : WoundInward(call.part, call.result[k])

\* The six face names in the order get_face_quads lists them, the axis each
\* face is perpendicular to, and whether it lies on the far side of the box.
FaceOrder == <<"front", "back", "right", "left", "top", "bottom">>
FaceAxis(face) ==
    CASE face \in {"front", "back"} -> 3
      [] face \in {"right", "left"} -> 1
      [] face \in {"top", "bottom"} -> 2
FaceIsFar(face) == face \in {"back", "left", "top"}

\* The coordinate of the plane of a face of the part.
FacePlane(part, face) ==
    IF FaceIsFar(face)
    THEN Add(part.origin[FaceAxis(face)], part.size[FaceAxis(face)])
    ELSE part.origin[FaceAxis(face)]

\* v is one of the eight corners of the box of the part.
IsBoxCorner(part, v) ==
    \A k \in 1..3 :
        v[k] \in {part.origin[k], Add(part.origin[k], part.size[k])}

\* The four corners of a UV rectangle (uMin, vMin, uMax, vMax).
RectCorners(r) == { <<r[1], r[2]>>, <<r[3], r[2]>>, <<r[3], r[4]>>, <<r[1], r[4]>> }

\* Two corners of a rectangle that share an edge: they differ in exactly one
\* coordinate.
AdjacentCorners(a, b) == (a[1] = b[1]) # (a[2] = b[2])

\* The successor of index k around a quad.
NextCorner(k) == (k % 4) + 1

\* The map from the quad's vertices to its UVs is affine: the fourth corner is
\* where the first three put it, in space and in the texture.
AffineQuad(q) ==
    /\ V3Sub(q.verts[4], q.verts[1]) = V3Sub(q.verts[3], q.verts[2])
    /\ Sub(q.uvs[4][1], q.uvs[1][1]) = Sub(q.uvs[3][1], q.uvs[2][1])
    /\ Sub(q.uvs[4][2], q.uvs[1][2]) = Sub(q.uvs[3][2], q.uvs[2][2])

\* The quad q is a face of the part: four distinct box corners in the plane of
\* the face, carrying the four distinct corners of the face's UV rectangle,
\* adjacent corners on consecutive vertices.
IsFaceOf(part, q) ==
    /\ Len(q.verts) = 4
    /\ Len(q.uvs) = 4
    /\ Cardinality({q.verts[k] : k \in 1..4}) = 4
    /\ \A k \in 1..4 :
          /\ IsBoxCorner(part, q.verts[k])
          /\ q.verts[k][FaceAxis(q.face)] = FacePlane(part, q.face)
    /\ {q.uvs[k] : k \in 1..4} = RectCorners(part.uvs[q.face])
    /\ Cardinality(RectCorners(part.uvs[q.face])) = 4
    /\ \A k \in 1..4 : AdjacentCorners(q.uvs[k], q.uvs[NextCorner(k)])
    /\ AffineQuad(q)

\* C12: get_face_quads returns exactly six quads, front, back, right, left,
\* top, bottom in that order; each has four distinct vertices, corners of the
\* box in the plane of its face, and four UVs that are the four distinct
\* corners of the face's UV rectangle with adjacent corners on consecutive
\* vertices, so the texture map over the quad is affine.
C12_SixFaceQuads ==
    Called("get_face_quads") =>
        /\ Len(call.result) = 6
        /\ \A k \in 1..6 :
              /\ call.result[k].face = FaceOrder[k]
              /\ IsFaceOf(call.part, call.result[k])

\* The quads of an inflated box with three different edge lengths were
\* returned.
C12_InflatedBoxQuads ==
    /\ Called("get_face_quads")
    /\ call.args.inflate = Half
    /\ call.args.size = I3(1, 2, 3)
    /\ call.part.size = <<Num(2), Num(3), Num(4)>>
    /\ call.result[5].face = "top"
    /\ call.result[5].verts[1][2] = Add(call.args.origin[2], Rat(5, 2))

\* The pixel rectangle (x, y, width, height) of the atlas, normalised to
\* (uMin, vMin, uMax, vMax).
NormRect(x, y, width, height) ==
    << Rat(x, TEX_W), Rat(y, TEX_H), Rat(x + width, TEX_W),
       Rat(y + height, TEX_H) >>

\* The width of a normalised rectangle.
RectWidth(r) == Sub(r[3], r[1])

\* The six rectangles of the cross unwrap of a w x h x d box at (u0, v0).
CrossUnwrap(u0, v0, w, h, d) ==
    [ right  |-> NormRect(u0, v0 + d, d, h),
      front  |-> NormRect(u0 + d, v0 + d, w, h),
      left   |-> NormRect(u0 + d + w, v0 + d, d, h),
      back   |-> NormRect(u0 + d + w + d, v0 + d, w, h),
      top    |-> NormRect(u0 + d, v0, w, d),
      bottom |-> NormRect(u0 + d + w, v0, w, d) ]

\* The widths of the right and left rectangles of a box of width w with the
\* other arguments of the call.
SideWidthsAt(w) ==
    << RectWidth(BoxUvs(Num(call.args.u0), Num(call.args.v0), Num(w),
                        Num(call.args.h), Num(call.args.d),
                        Num(TEX_W), Num(TEX_H)).right),
       RectWidth(BoxUvs(Num(call.args.u0), Num(call.args.v0), Num(w),
                        Num(call.args.h), Num(call.args.d),
                        Num(TEX_W), Num(TEX_H)).left) >>

\* C13: _box_uvs returns the six rectangles of the cross unwrap, right =
\* (u0, v0+d, d, h), front = (u0+d, v0+d, w, h), left = (u0+d+w, v0+d, d, h),
\* back = (u0+d+w+d, v0+d, w, h), top = (u0+d, v0, w, d), bottom =
\* (u0+d+w, v0, w, d), each normalised to (x/W, y/H, (x+width)/W,
\* (y+height)/H); the front and top widths are w/W, and the right and left
\* widths are d/W whatever the box width.
C13_CrossUnwrap ==
    Called("_box_uvs") =>
        /\ call.result = CrossUnwrap(call.args.u0, call.args.v0, call.args.w,
                                     call.args.h, call.args.d)
        /\ RectWidth(call.result.front) = Rat(call.args.w, TEX_W)
        /\ RectWidth(call.result.top) = Rat(call.args.w, TEX_W)
        /\ RectWidth(call.result.right) = Rat(call.args.d, TEX_W)
        /\ RectWidth(call.result.left) = Rat(call.args.d, TEX_W)
        /\ \A w \in UvDims :
              SideWidthsAt(w) = << RectWidth(call.result.right),
                                   RectWidth(call.result.left) >>

\* The rectangles of the slim arm were returned: front and top 3/64 wide.
C13_SlimArmUnwrapped ==
    /\ Called("_box_uvs")
    /\ call.args = [u0 |-> 40, v0 |-> 16, w |-> 3, h |-> 12, d |-> 4]
    /\ RectWidth(call.result.front) = Rat(3, 64)
    /\ RectWidth(call.result.top) = Rat(3, 64)
    /\ RectWidth(call.result.right) = Rat(4, 64)

----------------------------------------------------------------------------
(* Properties of the two model variants.                                   *)

\* The parts of both layers of the classic and of the slim model, base layer
\* first: those of the model in hand as the state holds them, those of the
\* other variant as its constructor builds them.
PartsOf(v) ==
    IF v = variant
    THEN GetAllParts(base_parts, overlay_parts)
    ELSE GetAllParts(ModelBaseParts(v), ModelOverlayParts(v))

ArmNames == {"rightArm", "leftArm", "rightSleeve", "leftSleeve"}
RightArmNames == {"rightArm", "rightSleeve"}

\* Both variants have the same part names in the same order in both layers.
SameNames(classic, slim) ==
    /\ Len(classic) = Len(slim)
    /\ \A k \in 1..Len(classic) : classic[k].name = slim[k].name
    /\ 2 * Len(base_parts) = Len(classic)

\* The classic part c and the slim part s are the same box.
SameBox(c, s) ==
    /\ c.origin = s.origin
    /\ c.size = s.size
    /\ c.uv_origin = s.uv_origin
    /\ c.inflate = s.inflate
    /\ c.pivot = s.pivot

\* The classic arm c and the slim arm s differ in width, 4 against 3 before
\* inflation, and in pivot; height, depth, UV origin and inflate are the same.
ArmsDifferInWidthAndPivot(c, s) ==
    /\ c.size[1] = Add(Num(4), Mul(Two, c.inflate))
    /\ s.size[1] = Add(Num(3), Mul(Two, s.inflate))
    /\ c.size[2] = s.size[2]
    /\ c.size[3] = s.size[3]
    /\ c.uv_origin = s.uv_origin
    /\ c.inflate = s.inflate
    /\ c.pivot # s.pivot

\* The parts of the two variants differ in the width and the pivot of the
\* arms and in nothing else, the origin of the arms included.
DifferInArmWidthAndPivotOnly(classic, slim) ==
    /\ SameNames(classic, slim)
    /\ \A k \in 1..Len(classic) :
          IF classic[k].name \in ArmNames
          THEN /\ ArmsDifferInWidthAndPivot(classic[k], slim[k])
               /\ classic[k].origin = slim[k].origin
          ELSE SameBox(classic[k], slim[k])

\* The statement of C14 as the specification words it: apart from width and
\* pivot the arm parts are identical too, origin included.
C14_ArmsDifferInWidthAndPivotOnly ==
    DifferInArmWidthAndPivotOnly(PartsOf("classic"), PartsOf("slim"))

\* How the origins of the arms of the two variants relate: the left ones are
\* equal, the right ones differ in x by the difference in width, so that
\* either arm keeps its inner face against the body.
ArmOrigins(c, s) ==
    /\ c.origin[2] = s.origin[2]
    /\ c.origin[3] = s.origin[3]
    /\ IF c.name \in RightArmNames
       THEN /\ s.origin[1] = Add(c.origin[1], One)
            /\ Add(s.origin[1], s.size[1]) = Add(c.origin[1], c.size[1])
       ELSE s.origin[1] = c.origin[1]

\* The pivots of a classic and a slim arm: y 22 against 21.5, x and z equal.
ArmPivots(c, s) ==
    /\ c.pivot[2] = Num(22)
    /\ s.pivot[2] = Rat(43, 2)
    /\ c.pivot[1] = s.pivot[1]
    /\ c.pivot[3] = s.pivot[3]

DifferInArmsAsBuilt(classic, slim) ==
    /\ SameNames(classic, slim)
    /\ \A k \in 1..Len(classic) :
          IF classic[k].name \in ArmNames
          THEN /\ ArmsDifferInWidthAndPivot(classic[k], slim[k])
               /\ ArmOrigins(classic[k], slim[k])
               /\ ArmPivots(classic[k], slim[k])
          ELSE SameBox(classic[k], slim[k])

\* C14: the classic and the slim model have the same part names in the same
\* order in both layers, and every part has the same origin, size, UV origin,
\* inflate and pivot in both, except the four arm parts: these differ in width
\* (4 against 3), in pivot (y 22 against 21.5) and, for rightArm and
\* rightSleeve, in the x of the origin (-8 against -7 before inflation).
C14_ArmsDifferInWidthPivotAndRightOrigin ==
    DifferInArmsAsBuilt(PartsOf("classic"), PartsOf("slim"))

\* The slim model is the one in hand, its right arm one unit further in than
\* the classic one's.
C14_SlimRightArmMovedIn ==
    /\ variant = "slim"
    /\ base_parts[3].name = "rightArm"
    /\ base_parts[3].origin[1] = Num(-7)
    /\ PartsOf("classic")[3].origin[1] = Num(-8)
    /\ overlay_parts[3].origin[1] = Rat(-15, 2)

\* The overlay part that goes with each base part.
OverlayNameOf(name) ==
    CASE name = "head"     -> "hat"
      [] name = "body"     -> "jacket"
      [] name = "rightArm" -> "rightSleeve"
      [] name = "leftArm"  -> "leftSleeve"
      [] name = "rightLeg" -> "rightPants"
      [] name = "leftLeg"  -> "leftPants"

\* The box over is the box under grown by inflate on every side.
GrownBy(under, over, inflate) ==
    \A k \in 1..3 :
        /\ over.origin[k] = Sub(under.origin[k], inflate)
        /\ over.size[k] = Add(under.size[k], Add(inflate, inflate))

\* C15: in both variants every base part has inflate 0, and the overlay part
\* at the same index is the one that goes with it: its box is the base part's
\* grown outward by one and the same positive inflate on every side, its pivot
\* is the base part's and its UV origin is another.
C15_OverlayIsInflatedBase ==
    /\ Len(overlay_parts) = Len(base_parts)
    /\ \A k \in 1..Len(base_parts) :
          /\ base_parts[k].inflate = Zero
          /\ overlay_parts[k].name = OverlayNameOf(base_parts[k].name)
          /\ Gt(overlay_parts[k].inflate, Zero)
          /\ overlay_parts[k].inflate = overlay_parts[1].inflate
          /\ GrownBy(base_parts[k], overlay_parts[k], overlay_parts[k].inflate)
          /\ overlay_parts[k].pivot = base_parts[k].pivot
          /\ overlay_parts[k].uv_origin # base_parts[k].uv_origin

\* A model is built whose hat is the 8-unit head grown to 9 units from
\* (-4.5, 23.5, -4.5).
C15_HatBuilt ==
    /\ base_parts[1].name = "head"
    /\ base_parts[1].size = I3(8, 8, 8)
    /\ overlay_parts[1].name = "hat"
    /\ overlay_parts[1].size = I3(9, 9, 9)
    /\ overlay_parts[1].origin = <<Rat(-9, 2), Rat(47, 2), Rat(-9, 2)>>
    /\ call.fn = "none"

----------------------------------------------------------------------------
(* Properties of _unproject, mat4_inverse and pick called on their own.    *)

\* C16: no call of pick, _unproject or mat4_inverse raises: on a singular
\* projection or view matrix, on a viewport of width or height 0 and on a ray
\* that misses all geometry the outcome is a value or the no-result sentinel.
C16_NoCallRaises ==
    call.fn \in {"pick", "_unproject", "mat4_inverse"} => ~call.raised

\* What does happen: a call of pick or _unproject raises exactly when the
\* viewport width or height is 0, and mat4_inverse never does.
C16_RaisesOnEmptyViewport ==
    /\ call.fn \in {"pick", "_unproject"} =>
          (call.raised <=> (call.args.viewport_w = 0 \/ call.args.viewport_h = 0))
    /\ Called("mat4_inverse") => ~call.raised

\* The determinant of a 4x4 matrix, expanded along its rows; m[(col - 1) * 4
\* + row] is the entry of the matrix at (row, col).
RECURSIVE DetOf(_, _, _), DetTerms(_, _, _, _)
Without(s, k) == SubSeq(s, 1, k - 1) \o SubSeq(s, k + 1, Len(s))
DetTerms(m, rows, cols, k) ==
    IF k > Len(cols) THEN Zero
    ELSE Add(Mul(Mul(IF k % 2 = 1 THEN One ELSE Neg(One),
                     m[(cols[k] - 1) * 4 + rows[1]]),
                 DetOf(m, Tail(rows), Without(cols, k))),
             DetTerms(m, rows, cols, k + 1))
DetOf(m, rows, cols) ==
    IF rows = <<>> THEN One ELSE DetTerms(m, rows, cols, 1)
Singular(m) == DetOf(m, <<1, 2, 3, 4>>, <<1, 2, 3, 4>>) = Zero

\* A call of _unproject that returned, its camera, and the normalised device
\* coordinates of its cursor: column i of GridN is 2i/GridN - 1, row j is
\* 1 - 2j/GridN.
UnprojectReturned == Called("_unproject") /\ ~call.raised
CallCamera == UnprojectCameras[call.args.camera]
CallNdc ==
    << Rat(2 * call.args.i - GridN, GridN), Rat(GridN - 2 * call.args.j, GridN) >>

\* The squared distance of the first three coordinates of two points.
DistanceSquared(a, b) == Dot3(V3Sub(a, b), V3Sub(a, b))

\* The way the ray of a cursor degenerates under a camera, if it does: the
\* camera is "singular"; or one of the two clip points of the cursor, taken
\* back through the projection, is at "infinity" (|w| < 1e-12); or the two,
\* divided by w and taken back through the view, "coincide" (closer than
\* 1e-12); "regular" otherwise.
WorldPointsCase(near_world, far_world) ==
    IF BelowPow10(DistanceSquared(far_world, near_world), 2 * TOL_EXP)
    THEN "coincide" ELSE "regular"
EyePointsCase(inv_view, near_eye, far_eye) ==
    IF \/ BelowPow10(AbsN(near_eye[4]), TOL_EXP)
       \/ BelowPow10(AbsN(far_eye[4]), TOL_EXP)
    THEN "infinity"
    ELSE WorldPointsCase(Mat4MulVec4(inv_view, DivideByW(near_eye)),
                         Mat4MulVec4(inv_view, DivideByW(far_eye)))
ClipPointsCase(ndc, inv_proj, inv_view) ==
    EyePointsCase(inv_view,
                  Mat4MulVec4(inv_proj, <<ndc[1], ndc[2], Neg(One), One>>),
                  Mat4MulVec4(inv_proj, <<ndc[1], ndc[2], One, One>>))
Degeneracy(ndc, camera) ==
    IF Singular(camera.proj) \/ Singular(camera.view) THEN "singular"
    ELSE ClipPointsCase(ndc, Mat4Inverse(camera.proj),
                        Mat4Inverse(camera.view))

\* What a call of _unproject that returned has to return in each case.
RayFits(ray, case) ==
    /\ ray.status \in {"ok", "none"}
    /\ case \in {"singular", "infinity", "coincide"} => ray.status = "none"
    /\ ray.status = "none" => ray.origin = None /\ ray.direction = None
    /\ ray.status = "ok" =>
          /\ Len(ray.origin) = 3
          /\ Len(ray.direction) = 3
          /\ Dot3(ray.direction, ray.direction) = One

\* C17: _unproject returns (None, None) whenever the projection or the view
\* matrix is singular, whenever one of the two un-projected clip points has
\* |w| < 1e-12, and whenever the near and the far world point are closer than
\* 1e-12; it returns both an origin and a direction or neither, and a
\* direction it returns has length 1.
C17_DegenerateRaysAreNone ==
    UnprojectReturned =>
        RayFits(call.result, Degeneracy(CallNdc, CallCamera))

\* _unproject returned no ray under an invertible camera whose near and far
\* world points are the same point.
C17_CoincidingPointsGaveNone ==
    /\ UnprojectReturned
    /\ Degeneracy(CallNdc, CallCamera) = "coincide"
    /\ ~Singular(CallCamera.proj)
    /\ ~Singular(CallCamera.view)
    /\ call.result.status = "none"

\* The position of the identity camera among those of the calls.
IdentityCamera ==
    CHOOSE c \in 1..Len(UnprojectCameras) :
        UnprojectCameras[c] = Camera(identity, identity)

\* C18: _unproject takes the widget position (mx, my), origin top-left, to
\* ndc_x = 2 mx / W - 1 and ndc_y = 1 - 2 my / H: (0, 0) goes to (-1, +1), the
\* centre of the viewport to (0, 0), (W, H) to (+1, -1) and every cursor in
\* the viewport into [-1, 1] x [-1, 1]; the clip points are (ndc_x, ndc_y, -1,
\* 1) and (ndc_x, ndc_y, +1, 1), so under the identity projection and view the
\* ray starts at (ndc_x, ndc_y, -1) and runs along (0, 0, 1).
C18_NdcOfCursor ==
    (UnprojectReturned /\ call.args.camera = IdentityCamera) =>
        /\ call.result.status = "ok"
        /\ call.result.origin =
              << Sub(Div(Mul(Two, CursorX(call.args.i)),
                         Num(call.args.viewport_w)), One),
                 Sub(One, Div(Mul(Two, CursorY(call.args.j)),
                              Num(call.args.viewport_h))),
                 Neg(One) >>
        /\ call.result.origin = <<CallNdc[1], CallNdc[2], Neg(One)>>
        /\ call.result.direction = I3(0, 0, 1)
        /\ (call.args.i = 0 /\ call.args.j = 0) =>
              call.result.origin = I3(-1, 1, -1)
        /\ (2 * call.args.i = GridN /\ 2 * call.args.j = GridN) =>
              call.result.origin = I3(0, 0, -1)
        /\ (call.args.i = GridN /\ call.args.j = GridN) =>
              call.result.origin = I3(1, -1, -1)
        /\ \A k \in 1..2 :
              /\ Le(Neg(One), call.result.origin[k])
              /\ Le(call.result.origin[k], One)

\* The top-left corner of the viewport was unprojected under the identity
\* camera, to the ray from (-1, +1, -1) along +Z.
C18_TopLeftUnprojected ==
    /\ UnprojectReturned
    /\ call.args.camera = IdentityCamera
    /\ call.args.i = 0
    /\ call.args.j = 0
    /\ call.result = Ray("ok", I3(-1, 1, -1), I3(0, 0, 1))

----------------------------------------------------------------------------
(* Properties of _ray_triangle_intersect and _ray_quad_intersect.          *)

\* The point at parameter t of the ray from o along d.
PointAt(o, d, t) == [k \in 1..3 |-> Add(o[k], Mul(t, d[k]))]

\* The plane of the triangle (v0, v1, v2) met by the ray from o along d: the
\* normal n of the plane, d . n, the parameter t of the meeting point P and
\* the coordinates (u, v) of P - v0 = u (v1 - v0) + v (v2 - v0), found by
\* projecting on n.  Holds the determinant alone for a ray along the plane.
PlaneHitAt(o, d, v0, e1, e2, n, det, t) ==
    [ det |-> det,
      t   |-> t,
      u   |-> Div(Dot3(Cross3(V3Sub(PointAt(o, d, t), v0), e2), n), Dot3(n, n)),
      v   |-> Div(Dot3(Cross3(e1, V3Sub(PointAt(o, d, t), v0)), n), Dot3(n, n)) ]
PlaneHitOn(o, d, v0, e1, e2, n, det) ==
    IF det = Zero THEN [det |-> det]
    ELSE PlaneHitAt(o, d, v0, e1, e2, n, det, Div(Dot3(V3Sub(v0, o), n), det))
PlaneHitWith(o, d, v0, e1, e2, n) ==
    PlaneHitOn(o, d, v0, e1, e2, n, Dot3(d, n))
PlaneHit(o, d, v0, v1, v2) ==
    PlaneHitWith(o, d, v0, V3Sub(v1, v0), V3Sub(v2, v0),
                 Cross3(V3Sub(v1, v0), V3Sub(v2, v0)))

\* The ray is not along the plane, the meeting point is in front of the
\* origin and in the closed triangle.
InFront(p) ==
    /\ ~BelowPow10(AbsN(p.det), EPSILON_EXP)
    /\ ~BelowPow10(p.t, EPSILON_EXP)
InClosedTriangle(p) ==
    /\ Le(Zero, p.u)
    /\ Le(p.u, One)
    /\ Le(Zero, p.v)
    /\ Le(Add(p.u, p.v), One)

\* The texture coordinates at (u, v) of a triangle with the given three.
TexAt(p, uvs, k) ==
    Add(Add(Mul(Sub(Sub(One, p.u), p.v), uvs[1][k]), Mul(p.u, uvs[2][k])),
        Mul(p.v, uvs[3][k]))

\* The point v0 + u (v1 - v0) + v (v2 - v0) of a triangle.
TrianglePoint(verts, u, v) ==
    [ k \in 1..3 |-> Add(Add(verts[1][k], Mul(u, Sub(verts[2][k], verts[1][k]))),
                         Mul(v, Sub(verts[3][k], verts[1][k]))) ]

\* What the claim has _ray_triangle_intersect return for the plane hit p.
TriangleResult(p, uvs) ==
    IF InFront(p) /\ InClosedTriangle(p)
    THEN <<p.t, TexAt(p, uvs, 1), TexAt(p, uvs, 2)>>
    ELSE None

CallPlaneHit ==
    PlaneHit(call.args.origin, call.args.direction, call.args.verts[1],
             call.args.verts[2], call.args.verts[3])

\* C19: _ray_triangle_intersect returns a hit exactly when |det| >= 1e-7, the
\* barycentric coordinates satisfy 0 <= u <= 1, v >= 0 and u + v <= 1, edges
\* included, and t >= 1e-7; the t it returns is the parameter of the meeting
\* point along the direction and the texture coordinates are (1 - u - v) uv0 +
\* u uv1 + v uv2; a triangle behind the origin or parallel to the ray gives no
\* hit.
C19_TriangleHitExactly ==
    Called("_ray_triangle_intersect") =>
        /\ call.result = TriangleResult(CallPlaneHit, call.args.uvs)
        /\ CallPlaneHit.det = Zero => call.result = None
        /\ (CallPlaneHit.det # Zero /\ Lt(CallPlaneHit.t, Zero)) =>
              call.result = None
        /\ call.result # None =>
              PointAt(call.args.origin, call.args.direction, call.result[1])
                 = TrianglePoint(call.args.verts, CallPlaneHit.u,
                                 CallPlaneHit.v)

\* A ray met the triangle on its edge from v1 to v2, in front of its origin,
\* and the call returned the hit with u + v = 1.
C19_HitOnEdge ==
    /\ Called("_ray_triangle_intersect")
    /\ call.result # None
    /\ call.args.uvs = <<I2(0, 0), I2(1, 0), I2(0, 1)>>
    /\ Gt(call.result[2], Zero)
    /\ Gt(call.result[3], Zero)
    /\ Add(call.result[2], call.result[3]) = One
    /\ Add(CallPlaneHit.u, CallPlaneHit.v) = One

\* What the two triangles of the quad of the call give on their own, by the
\* plane of each: (v0, v1, v2), and (v0, v2, v3).
FirstHit ==
    PlaneHit(call.args.origin, call.args.direction, call.args.verts[1],
             call.args.verts[2], call.args.verts[3])
SecondHit ==
    PlaneHit(call.args.origin, call.args.direction, call.args.verts[1],
             call.args.verts[3], call.args.verts[4])
FirstResult ==
    TriangleResult(FirstHit, <<call.args.uvs[1], call.args.uvs[2],
                               call.args.uvs[3]>>)
SecondResult ==
    TriangleResult(SecondHit, <<call.args.uvs[1], call.args.uvs[3],
                                call.args.uvs[4]>>)

\* The normal of the first triangle of a quad; the quad is planar and convex
\* when its fourth vertex is in the plane of the other three and it turns the
\* same way at every corner.
QuadPlaneNormal(verts) ==
    Cross3(V3Sub(verts[2], verts[1]), V3Sub(verts[3], verts[1]))
TurnAt(verts, k) ==
    Dot3(Cross3(V3Sub(verts[NextCorner(k)], verts[k]),
                V3Sub(verts[NextCorner(NextCorner(k))], verts[NextCorner(k)])),
         QuadPlaneNormal(verts))
PlanarConvex(verts) ==
    /\ Dot3(V3Sub(verts[4], verts[1]), QuadPlaneNormal(verts)) = Zero
    /\ \A k \in 1..4 : Gt(TurnAt(verts, k), Zero)

\* The point p of the plane of a planar convex quad is in the closed quad: on
\* the inner side of each of the four edges, or on the edge.
InClosedQuad(verts, p) ==
    \A k \in 1..4 :
        Le(Zero, Dot3(Cross3(V3Sub(verts[NextCorner(k)], verts[k]),
                             V3Sub(p, verts[k])),
                      QuadPlaneNormal(verts)))

\* The ray of the call meets the plane of the quad in front of its origin, in
\* the closed quad.
MeetsClosedQuad ==
    /\ InFront(FirstHit)
    /\ InClosedQuad(call.args.verts,
                    PointAt(call.args.origin, call.args.direction, FirstHit.t))

\* C20: _ray_quad_intersect returns what triangle (v0, v1, v2) gives whenever
\* that is a hit, and what triangle (v0, v2, v3) gives otherwise; for a planar
\* convex quad it returns a hit exactly when the ray meets the plane in front
\* of its origin at a point of the closed quad, the shared diagonal included,
\* and where both triangles hit they give the same t.
C20_QuadIsFirstThenSecond ==
    Called("_ray_quad_intersect") =>
        /\ call.result = IF FirstResult # None THEN FirstResult
                         ELSE SecondResult
        /\ PlanarConvex(call.args.verts) =>
              /\ call.result # None <=> MeetsClosedQuad
              /\ (FirstResult # None /\ SecondResult # None) =>
                    /\ FirstResult[1] = SecondResult[1]
                    /\ FirstResult = SecondResult
                    /\ FirstHit.u = Zero

\* A ray met a planar convex quad on its diagonal from v0 to v2, where both
\* triangles hit, and the call returned the hit.
C20_HitOnDiagonal ==
    /\ Called("_ray_quad_intersect")
    /\ PlanarConvex(call.args.verts)
    /\ FirstResult # None
    /\ SecondResult # None
    /\ Gt(FirstHit.v, Zero)
    /\ Lt(FirstHit.v, One)
    /\ call.result = SecondResult

----------------------------------------------------------------------------
(* Properties of mat4_inverse.                                             *)

\* The determinant of a matrix by expansion along its rows.
Det4(m) == DetOf(m, <<1, 2, 3, 4>>, <<1, 2, 3, 4>>)

\* What mat4_inverse has to return for m: None when |det m| < 1e-12, and a
\* matrix that multiplies m to the identity otherwise.
IsInverseOrNone(m, inv) ==
    IF BelowPow10(AbsN(Det4(m)), TOL_EXP)
    THEN inv = None
    ELSE /\ inv # None
         /\ Len(inv) = 16
         /\ Mat4Multiply(m, inv) = identity
         /\ Mat4Multiply(inv, m) = identity

\* C21: mat4_inverse(identity()) is identity(); for every M with |det M| >=
\* 1e-12, M multiplied by mat4_inverse(M) is identity(); and mat4_inverse
\* returns None, without raising, exactly when |det M| < 1e-12, as for the
\* all-zero matrix.
C21_InverseOrNone ==
    Called("mat4_inverse") =>
        /\ ~call.raised
        /\ IsInverseOrNone(call.args.m, call.result)
        /\ call.args.m = identity => call.result = identity
        /\ call.args.m = ZeroMatrix => call.result = None

\* A matrix with no zero pattern was inverted, and its inverse is not the
\* matrix itself.
C21_DenseMatrixInverted ==
    /\ Called("mat4_inverse")
    /\ call.args.m = DenseMatrix
    /\ call.result # None
    /\ call.result # call.args.m
    /\ Mat4Multiply(call.args.m, call.result) = identity

----------------------------------------------------------------------------
(* Properties of _rotate_point.                                            *)

\* The right-handed rotation of a vector about one axis (1 = X, 2 = Y,
\* 3 = Z) by a degrees, as the product with the rotation matrix.
AxisRotation(axis, a, v) ==
    CASE axis = 1 -> << v[1],
                        Sub(Mul(CosDeg(a), v[2]), Mul(SinDeg(a), v[3])),
                        Add(Mul(SinDeg(a), v[2]), Mul(CosDeg(a), v[3])) >>
      [] axis = 2 -> << Add(Mul(CosDeg(a), v[1]), Mul(SinDeg(a), v[3])),
                        v[2],
                        Sub(Mul(CosDeg(a), v[3]), Mul(SinDeg(a), v[1])) >>
      [] axis = 3 -> << Sub(Mul(CosDeg(a), v[1]), Mul(SinDeg(a), v[2])),
                        Add(Mul(SinDeg(a), v[1]), Mul(CosDeg(a), v[2])),
                        v[3] >>

V3Add(a, b) == <<Add(a[1], b[1]), Add(a[2], b[2]), Add(a[3], b[3])>>

\* The vector v turned about the three axes in the given order.
TurnedInOrder(order, rot, v) ==
    AxisRotation(order[3], rot[order[3]],
        AxisRotation(order[2], rot[order[2]],
            AxisRotation(order[1], rot[order[1]], v)))

\* The rotation about the pivot with the axes applied in the given order.
RotatedInOrder(order, p, pivot, rot) ==
    V3Add(pivot, TurnedInOrder(order, rot, V3Sub(p, pivot)))

XYZ == <<1, 2, 3>>
AxisOrders == { o \in [1..3 -> 1..3] : {o[1], o[2], o[3]} = 1..3 }

\* The rotation as a map: the images of the three unit vectors.
RotationMap(order, rot) ==
    << TurnedInOrder(order, rot, I3(1, 0, 0)),
       TurnedInOrder(order, rot, I3(0, 1, 0)),
       TurnedInOrder(order, rot, I3(0, 0, 1)) >>

NonzeroAxes(rot) == { a \in 1..3 : rot[a] # 0 }
FullTurn(a) == a % 360 = 0
HalfTurn(a) == a % 360 = 180

\* The order in which the two turned axes are applied the other way round.
Swapped(rot) ==
    CASE rot[3] = 0 -> <<2, 1, 3>>
      [] rot[2] = 0 -> <<3, 2, 1>>
      [] rot[1] = 0 -> <<1, 3, 2>>

\* Two rotations about different axes commute only when one of them is a
\* whole number of full turns or both are half turns.
Commuting(rot) ==
    \/ \E a \in NonzeroAxes(rot) : FullTurn(rot[a])
    \/ \A a \in NonzeroAxes(rot) : HalfTurn(rot[a])

\* C22: _rotate_point returns pivot + Rz(Ry(Rx(p - pivot))); a rotation of
\* 360 degrees about a single axis returns the point, 90 degrees about Z
\* takes (1,0,0) to (0,1,0), the pivot is a fixed point, and with two axes
\* turned by angles that do not commute the rotation differs from the one
\* that applies the two axes in the other order.
C22_RotatesXThenYThenZ ==
    Called("_rotate_point") =>
        /\ ~call.raised
        /\ call.result = RotatedInOrder(XYZ, call.args.p, call.args.pivot,
                                        call.args.rotation_deg)
        /\ ( /\ Cardinality(NonzeroAxes(call.args.rotation_deg)) = 1
             /\ \A a \in NonzeroAxes(call.args.rotation_deg) :
                    call.args.rotation_deg[a] = 360 )
           => call.result = call.args.p
        /\ ( /\ call.args.p = I3(1, 0, 0)
             /\ call.args.pivot = I3(0, 0, 0)
             /\ call.args.rotation_deg = <<0, 0, 90>> )
           => call.result = I3(0, 1, 0)
        /\ call.args.p = call.args.pivot => call.result = call.args.pivot
        /\ ( /\ Cardinality(NonzeroAxes(call.args.rotation_deg)) = 2
             /\ ~Commuting(call.args.rotation_deg) )
           => RotationMap(XYZ, call.args.rotation_deg)
                # RotationMap(Swapped(call.args.rotation_deg), call.args.rotation_deg)

\* A point off both axes has been turned about X and Y by angles that do
\* not commute, and the other order would have taken it elsewhere.
C22_TurnedAboutTwoAxes ==
    /\ Called("_rotate_point")
    /\ call.args.p = I3(3, 5, 7)
    /\ call.args.pivot = I3(1, 2, 3)
    /\ call.args.rotation_deg = <<90, 30, 0>>
    /\ call.result # call.args.p
    /\ call.result # RotatedInOrder(<<2, 1, 3>>, call.args.p, call.args.pivot,
                                    call.args.rotation_deg)

\* With two axes turned, the rotation differs from the rotation in every
\* other order of the three axes.
C22_EveryOtherOrderDiffers ==
    ( /\ Called("_rotate_point")
      /\ Cardinality(NonzeroAxes(call.args.rotation_deg)) = 2 )
    => \A order \in AxisOrders \ {[a \in 1..3 |-> a]} :
           RotationMap(XYZ, call.args.rotation_deg)
             # RotationMap(order, call.args.rotation_deg)

----------------------------------------------------------------------------
(* Properties of the rectangles of _box_uvs.                               *)

FaceNames == {"front", "back", "left", "right", "top", "bottom"}

InUnitRange(x) == Le(Zero, x) /\ Le(x, One)
InUnitSquare(rect) == \A k \in 1..4 : InUnitRange(rect[k])
MaxAboveMin(rect) == Gt(rect[3], rect[1]) /\ Gt(rect[4], rect[2])

\* The cross unwrap of a w x h x d box at (u0, v0) is 2d + 2w pixels wide
\* and d + h pixels high; it fits when it lies inside the atlas.
UnwrapFits(u0, v0, w, h, d) ==
    /\ u0 >= 0
    /\ v0 >= 0
    /\ u0 + 2 * d + 2 * w <= TEX_W
    /\ v0 + d + h <= TEX_H

----------------------------------------------------------------------------
(* Properties of look_at on degenerate inputs.                             *)

ZeroVector == <<Zero, Zero, Zero>>

\* The inputs without a view direction, or with up along the view direction.
LookAtDegenerate(eye, center, up) ==
    \/ center = eye
    \/ Cross3(V3Sub(center, eye), up) = ZeroVector

\* look_at has no check of its inputs: it returns a 16-entry matrix when eye
\* and centre differ and up is not along the view direction, and the
\* division by the zero length raises when centre = eye or when up is
\* parallel to the view direction.
C24_LookAtRaisesOnDegenerate ==
    Called("look_at") =>
        /\ call.raised <=> LookAtDegenerate(call.args.eye, call.args.center,
                                            call.args.up)
        /\ call.raised => call.result = None
        /\ ~call.raised => Len(call.result) = 16

\* look_at was called with centre = eye and raised.
C24_RaisedOnEyeAtCentre ==
    /\ Called("look_at")
    /\ call.args.center = call.args.eye
    /\ call.args.eye = I3(1, 2, 3)
    /\ call.raised
    /\ call.result = None

\* C24: look_at raises no error on degenerate inputs: with centre = eye, or
\* with up parallel to the view direction, the call still returns a
\* 16-entry matrix.
C24_LookAtAlwaysReturnsMatrix ==
    Called("look_at") =>
        /\ ~call.raised
        /\ call.result # None
        /\ Len(call.result) = 16

----------------------------------------------------------------------------
(* Properties of the atlas layout of the two models.                       *)

\* A UV coordinate that is a whole number of pixels, and that number.
IsWholePixel(x, tex) == x[2] = 0 /\ tex % x[3] = 0
PixelOf(x, tex) == x[1] * (tex \div x[3])

\* The rectangle of a face in pixels: <<x0, y0, x1, y1>>.
IsPixelRect(rect) ==
    /\ IsWholePixel(rect[1], TEX_W) /\ IsWholePixel(rect[3], TEX_W)
    /\ IsWholePixel(rect[2], TEX_H) /\ IsWholePixel(rect[4], TEX_H)
PixelRect(rect) ==
    << PixelOf(rect[1], TEX_W), PixelOf(rect[2], TEX_H),
       PixelOf(rect[3], TEX_W), PixelOf(rect[4], TEX_H) >>

\* The UV rectangles of all faces of all parts, part by part.
FaceRectCount(parts) == Len(FaceOrder) * Len(parts)
FaceRect(parts, k) ==
    parts[((k - 1) \div Len(FaceOrder)) + 1].uvs[FaceOrder[((k - 1) % Len(FaceOrder)) + 1]]

InsideAtlas(r) ==
    /\ 0 <= r[1] /\ r[1] < r[3] /\ r[3] <= TEX_W
    /\ 0 <= r[2] /\ r[2] < r[4] /\ r[4] <= TEX_H

\* Two pixel rectangles share a texel.
Overlap(r, s) == r[1] < s[3] /\ s[1] < r[3] /\ r[2] < s[4] /\ s[2] < r[4]

AtlasLayoutSound(parts) ==
    /\ FaceRectCount(parts) = 72
    /\ \A k \in 1..FaceRectCount(parts) :
          /\ IsPixelRect(FaceRect(parts, k))
          /\ InsideAtlas(PixelRect(FaceRect(parts, k)))
    /\ \A i \in 1..FaceRectCount(parts), j \in 1..FaceRectCount(parts) :
          i < j => ~Overlap(PixelRect(FaceRect(parts, i)),
                            PixelRect(FaceRect(parts, j)))

\* C25: in each variant the 72 face rectangles of the 12 parts are whole
\* pixel rectangles inside the 64 x 64 atlas, and no two of them share a
\* texel.
C25_FaceRectsDisjointInAtlas ==
    AtlasLayoutSound(GetAllParts(base_parts, overlay_parts))

\* The slim model is in hand after a pick: its arm is 3 pixels wide on the
\* atlas, next to the face beside it, and its hat ends at the atlas edge.
C25_SlimAtlasLaidOut ==
    /\ variant = "slim"
    /\ pick # NoPick
    /\ \E k \in 1..Len(base_parts) :
          /\ base_parts[k].name = "rightArm"
          /\ PixelRect(base_parts[k].uvs.front) = <<44, 20, 47, 32>>
          /\ PixelRect(base_parts[k].uvs.left) = <<47, 20, 51, 32>>
    /\ \E k \in 1..Len(overlay_parts) :
          PixelRect(overlay_parts[k].uvs.back)[3] = TEX_W

----------------------------------------------------------------------------
(* Properties of the arms-out pose.                                        *)

\* The x coordinates of the vertices of the part as get_transformed_quads
\* returns them.
VerticesXOf(quads) ==
    { quads[k].verts[n][1] : k \in 1..Len(quads), n \in 1..4 }
PosedXs(name) == VerticesXOf(GetTransformedQuads(PartNamed(name)))

\* The body box spans x in [-4, 4]: its side towards the right arm and its
\* side towards the left arm.
BodyRightX == PartNamed("body").origin[1]
BodyLeftX == Add(PartNamed("body").origin[1], PartNamed("body").size[1])

\* C28: in the arms-out pose every rotated vertex of rightArm and rightSleeve
\* has x <= -4 + inflate and every rotated vertex of leftArm and leftSleeve
\* has x >= 4 - inflate, on both variants.
C28_ArmsPointAwayFromBody ==
    Posed(2) =>
        /\ \A name \in {"rightArm", "rightSleeve"} :
              \A x \in PosedXs(name) :
                  Le(x, Add(BodyRightX, PartNamed(name).inflate))
        /\ \A name \in {"leftArm", "leftSleeve"} :
              \A x \in PosedXs(name) :
                  Le(Sub(BodyLeftX, PartNamed(name).inflate), x)

\* In the arms-out pose each arm lies across the body: the right arm and
\* sleeve, built at x <= -4 + inflate, have rotated vertices at x > 4, and
\* the left arm and sleeve have rotated vertices at x < -4.
C28_ArmsLieAcrossBody ==
    Posed(2) =>
        /\ \A name \in {"rightArm", "rightSleeve"} :
              /\ \A x \in VerticesXOf(GetFaceQuads(PartNamed(name))) :
                    Le(x, Add(BodyRightX, PartNamed(name).inflate))
              /\ \E x \in PosedXs(name) : Gt(x, BodyLeftX)
        /\ \A name \in {"leftArm", "leftSleeve"} :
              /\ \A x \in VerticesXOf(GetFaceQuads(PartNamed(name))) :
                    Le(Sub(BodyLeftX, PartNamed(name).inflate), x)
              /\ \E x \in PosedXs(name) : Lt(x, BodyRightX)

----------------------------------------------------------------------------
(* Properties of the texel of a pick against the face that was hit.        *)

\* The winning hit of a finished pick and the pixel rectangle of its face.
WinningHit == pick.out.scan.hits[pick.out.scan.winner]
WinningRect == PixelRect(PartNamed(WinningHit.part).uvs[WinningHit.face])

\* The texel lies in the half-open pixel rectangle.
TexelInRect(texel, r) ==
    /\ r[1] <= texel[1] /\ texel[1] < r[3]
    /\ r[2] <= texel[2] /\ texel[2] < r[4]

\* The UV is on the far edge of the rectangle in u or in v.
OnFarEdge(uv, rect) == uv[1] = rect[3] \/ uv[2] = rect[4]

\* C26: whenever pick returns a texel, the texel lies inside the pixel
\* rectangle [x, x+width) x [y, y+height) of the face whose quad produced
\* the winning hit, also when the hit is on an edge or corner of the face,
\* where the UV equals the rectangle's maximum u or v.
C26_TexelInsideFaceRect ==
    (Scanned /\ pick.out.result # None) =>
        TexelInRect(pick.out.result, WinningRect)

\* The texel of a UV inside the closed rectangle of the face: inside the
\* pixel rectangle unless the UV is on the far edge, and then on the first
\* texel beyond it (or, at the edge of the atlas, on the last texel).
WinningUvRect == PartNamed(WinningHit.part).uvs[WinningHit.face]
TexelJustBeyond(texel, uv, rect, r) ==
    /\ r[1] <= texel[1] /\ texel[1] <= Min2(r[3], TEX_W - 1)
    /\ r[2] <= texel[2] /\ texel[2] <= Min2(r[4], TEX_H - 1)
    /\ texel[1] = r[3] => uv[1] = rect[3]
    /\ texel[2] = r[4] => uv[2] = rect[4]
    /\ (uv[1] = rect[3] /\ r[3] < TEX_W) => texel[1] = r[3]
    /\ (uv[2] = rect[4] /\ r[4] < TEX_H) => texel[2] = r[4]

\* A returned texel lies inside the pixel rectangle of the face that was hit
\* unless the hit is on the far edge of the face in u or v; such a hit gives
\* the texel next to the rectangle.
C26_TexelInsideUnlessOnFarEdge ==
    (Scanned /\ pick.out.result # None) =>
        /\ pick.out.scan.best_uv = WinningHit.uv
        /\ TexelJustBeyond(pick.out.result, WinningHit.uv, WinningUvRect,
                           WinningRect)
        /\ ~OnFarEdge(WinningHit.uv, WinningUvRect) =>
              TexelInRect(pick.out.result, WinningRect)

\* A pick hit the head's front face on its lower edge and returned a texel
\* below the face's rectangle.
C26_EdgeHitLeftFace ==
    /\ Scanned
    /\ pick.out.result # None
    /\ WinningHit.part = "head"
    /\ WinningHit.face = "front"
    /\ WinningHit.uv[2] = WinningUvRect[4]
    /\ pick.out.result[2] = WinningRect[4]
    /\ ~TexelInRect(pick.out.result, WinningRect)

----------------------------------------------------------------------------
(* Properties of the overlay layer in pick.                                *)

\* The point p in the frame of the part: turned back about the pivot by the
\* part's rotation, Z first, then Y, then X.
BackTurned(part, p) ==
    V3Add(part.pivot,
          TurnedInOrder(<<3, 2, 1>>,
                        <<-part.rotation[1], -part.rotation[2], -part.rotation[3]>>,
                        V3Sub(p, part.pivot)))

\* The point local lies in the closed box of the part.
InBoxLocal(part, local) ==
    \A k \in 1..3 :
        /\ Le(part.origin[k], local[k])
        /\ Le(local[k], Add(part.origin[k], part.size[k]))
InBox(part, p) == InBoxLocal(part, BackTurned(part, p))

OutsideEveryBox(parts, p) == \A k \in 1..Len(parts) : ~InBox(parts[k], p)

\* The point local lies less than EPSILON away from the closed box, on every
\* axis.
UnderEpsilonOfBoxLocal(part, local) ==
    \A k \in 1..3 :
        /\ BelowPow10(Sub(part.origin[k], local[k]), EPSILON_EXP)
        /\ BelowPow10(Sub(local[k], Add(part.origin[k], part.size[k])),
                      EPSILON_EXP)
UnderEpsilonOfBox(part, p) == UnderEpsilonOfBoxLocal(part, BackTurned(part, p))

OverlayNames == { overlay_parts[k].name : k \in 1..Len(overlay_parts) }

\* A pick with the overlay visible has returned a texel for a ray that
\* starts outside every box.
PickedFromOutside(out) ==
    /\ out.status = "ok"
    /\ out.ray.status = "ok"
    /\ out.result # None
    /\ OutsideEveryBox(GetAllParts(base_parts, overlay_parts), out.ray.origin)
WinnerOf(out) == out.scan.hits[out.scan.winner]

\* C27: with overlay_visible true and the ray origin outside every part's
\* box, the winning hit of pick is on a quad of an overlay part.
C27_OverlayAlwaysWins ==
    (Called("pick") /\ ~call.raised /\ PickedFromOutside(call.out)) =>
        WinnerOf(call.out).part \in OverlayNames

\* With the overlay visible and the ray origin outside every box, a base
\* part wins only when the ray starts less than EPSILON away from the box of
\* its overlay part, whose face the ray meets too near to count as a hit.
C27_BaseWinsOnlyUnderEpsilon ==
    ( /\ Called("pick") /\ ~call.raised /\ PickedFromOutside(call.out)
      /\ WinnerOf(call.out).part \notin OverlayNames )
    => UnderEpsilonOfBox(PartNamed(OverlayNameOf(WinnerOf(call.out).part)),
                         call.out.ray.origin)

\* From just in front of the sleeve the arm under it was picked.
C27_ArmPickedThroughSleeve ==
    /\ Called("pick")
    /\ PickedFromOutside(call.out)
    /\ WinnerOf(call.out).part = "rightArm"
    /\ WinnerOf(call.out).face = "front"
    /\ \E k \in 1..Len(call.out.scan.hits) :
          /\ call.out.scan.hits[k].part = "rightSleeve"
          /\ call.out.scan.hits[k].face = "back"

\* The picks of the cameras at a distance, in every pose: the winner of a
\* pick with the overlay visible is on an overlay part.
C27_OverlayWinsFromAfar ==
    (Scanned /\ pick.args.overlay_visible /\ PickedFromOutside(pick.out)) =>
        WinnerOf(pick.out).part \in OverlayNames

----------------------------------------------------------------------------
(* The camera limits.                                                      *)

\* The eye is away from the target, the view direction is off the up
\* vector, and the aspect ratio is a quotient by a nonzero height.
PitchInRange(r) == Le(Num(-89), r.cam_pitch) /\ Le(r.cam_pitch, Num(89))
DistanceInRange(r) == Le(Num(10), r.cam_distance) /\ Le(r.cam_distance, Num(120))
SizeAtLeastOne(r) == Le(One, r.width) /\ Le(One, r.height)
CameraSound(r) ==
    /\ PitchInRange(r)
    /\ DistanceInRange(r)
    /\ SizeAtLeastOne(r)
    /\ ~r.raised
    /\ ~PerspectiveOrRaise(45, Div(r.width, MaxOf(r.height, One)),
                           Rat(1, 10), Num(500)).raised
    /\ ~ViewOrRaise(r).raised

\* C30: after any sequence of camera_rotate, camera_zoom, reset_camera and
\* resize calls the pitch is within [-89, 89], the distance within
\* [10, 120], width and height are at least 1, and neither look_at nor
\* perspective raises on the values _update_matrices hands them.
C30_CameraNeverDegenerate == CameraSound(renderer)

\* The pitch and the distance are at their limits after calls that went
\* beyond them, the window has been resized to nothing, and the matrices
\* have been recomputed there.
C30_ClampedAtLimits ==
    /\ renderer.cam_pitch = Num(89)
    /\ renderer.cam_distance = Num(10)
    /\ renderer.width = One
    /\ renderer.height = One
    /\ renderer.view_matrix = Inexact
    /\ renderer.proj_matrix = Inexact

----------------------------------------------------------------------------
(* The mouse modes of the window.                                          *)

NoButtonDown == held = {}

\* C29: whenever every pressed mouse button has been released, neither
\* _drag_active nor _rotate_active is set.
C29_ModesEndWithButtons ==
    NoButtonDown => ~window.drag_active /\ ~window.rotate_active

\* The rotate mode ends with the buttons, and the drag mode outlives them
\* only after a release of button 1 that the rotate branch took.
C29_RotateEndsWithButtons == NoButtonDown => ~window.rotate_active

\* A release of button 1 that arrives while no rotation is active ends the
\* drag.
C29_ReleaseEndsDragUnlessRotating ==
    [][\A button \in Buttons :
          OnButtonRelease(button) /\ button = 1 /\ ~window.rotate_active
              => ~window'.drag_active]_vars

\* A motion with no button down has painted a texel.
C29_PaintedWithNoButtonDown ==
    /\ NoButtonDown
    /\ window.drag_active
    /\ window.effect = "paint"
    /\ window.last_drag_pixel = <<12, 16>>

====
